---- MODULE Spec2Model ----
(***************************************************************************)
(* terminal-wakatime: the command classifier (pkg/tracker), the heartbeat  *)
(* gate (pkg/tracker), the monitor entry point (pkg/monitor), the track    *)
(* sub-command (main), the wakatime-cli wrapper (pkg/wakatime), the shell  *)
(* hooks (pkg/shell) and the self-update (pkg/updater).                    *)
(*                                                                         *)
(* Strings are TLA+ strings; a character is a string of length one.        *)
(* A Go pointer that may be nil (to int, to Activity) is a sequence of    *)
(* length zero (nil) or one.  Times are whole seconds.                     *)
(***************************************************************************)
EXTENDS Integers, Sequences, FiniteSets, TLC

Max(S) == CHOOSE x \in S : \A y \in S : y <= x
Min(S) == CHOOSE x \in S : \A y \in S : x <= y

None == <<>>
Some(x) == <<x>>

(***************************************************************************)
(* Go standard library: strings                                            *)
(***************************************************************************)
Ch(s, i) == SubSeq(s, i, i)

\* unicode.IsSpace on the ASCII white space a string of the model can hold
\* (no vertical tab); \s of RE2 is this set too
IsSpace(c) == c \in {" ", "\t", "\n", "\r", "\f"}

HasPrefix(s, p) == Len(s) >= Len(p) /\ SubSeq(s, 1, Len(p)) = p

\* s[i:] with i counted from 1
From(s, i) == SubSeq(s, i, Len(s))

RECURSIVE FieldsFrom(_, _, _, _)
FieldsFrom(s, i, cur, acc) ==
    IF i > Len(s)
    THEN IF cur = "" THEN acc ELSE Append(acc, cur)
    ELSE IF IsSpace(Ch(s, i))
         THEN FieldsFrom(s, i + 1, "", IF cur = "" THEN acc ELSE Append(acc, cur))
         ELSE FieldsFrom(s, i + 1, cur \o Ch(s, i), acc)

\* strings.Fields: the maximal runs of non-space characters, in order
Fields(s) == FieldsFrom(s, 1, "", <<>>)

UpperCase == <<"A", "B", "C", "D", "E", "F", "G", "H", "I", "J", "K", "L", "M",
               "N", "O", "P", "Q", "R", "S", "T", "U", "V", "W", "X", "Y", "Z">>
LowerCase == <<"a", "b", "c", "d", "e", "f", "g", "h", "i", "j", "k", "l", "m",
               "n", "o", "p", "q", "r", "s", "t", "u", "v", "w", "x", "y", "z">>
Digits == {"0", "1", "2", "3", "4", "5", "6", "7", "8", "9"}

LowerCh(c) ==
    IF \E k \in 1..Len(UpperCase) : UpperCase[k] = c
    THEN LowerCase[CHOOSE k \in 1..Len(UpperCase) : UpperCase[k] = c]
    ELSE c

RECURSIVE ToLower(_)
ToLower(s) == IF s = "" THEN "" ELSE LowerCh(Ch(s, 1)) \o ToLower(From(s, 2))

(***************************************************************************)
(* Go standard library: path/filepath (Unix separator)                     *)
(***************************************************************************)
IsAbs(p) == HasPrefix(p, "/")

RECURSIVE StripTrailingSlashes(_)
StripTrailingSlashes(p) ==
    IF p # "" /\ Ch(p, Len(p)) = "/"
    THEN StripTrailingSlashes(SubSeq(p, 1, Len(p) - 1))
    ELSE p

\* index of the last "/" of p, 0 when there is none
LastSlash(p) ==
    LET S == {i \in 1..Len(p) : Ch(p, i) = "/"}
    IN  IF S = {} THEN 0 ELSE Max(S)

\* filepath.Base
Base(path) ==
    IF path = "" THEN "."
    ELSE LET p == StripTrailingSlashes(path)
             q == From(p, LastSlash(p) + 1)
         IN  IF q = "" THEN "/" ELSE q

RECURSIVE SplitSlash(_, _, _, _)
SplitSlash(p, i, cur, acc) ==
    IF i > Len(p) THEN Append(acc, cur)
    ELSE IF Ch(p, i) = "/"
         THEN SplitSlash(p, i + 1, "", Append(acc, cur))
         ELSE SplitSlash(p, i + 1, cur \o Ch(p, i), acc)

RECURSIVE CleanParts(_, _, _)
\* the element stack of filepath.Clean: "" and "." dropped, ".." pops
CleanParts(parts, rooted, out) ==
    IF parts = <<>> THEN out
    ELSE LET e == Head(parts)
             rest == Tail(parts)
         IN  IF e = "" \/ e = "." THEN CleanParts(rest, rooted, out)
             ELSE IF e = ".."
                  THEN IF out # <<>> /\ out[Len(out)] # ".."
                       THEN CleanParts(rest, rooted, SubSeq(out, 1, Len(out) - 1))
                       ELSE IF rooted THEN CleanParts(rest, rooted, out)
                            ELSE CleanParts(rest, rooted, Append(out, e))
                  ELSE CleanParts(rest, rooted, Append(out, e))

RECURSIVE JoinSlash(_)
JoinSlash(parts) ==
    IF parts = <<>> THEN ""
    ELSE IF Len(parts) = 1 THEN parts[1]
         ELSE parts[1] \o "/" \o JoinSlash(Tail(parts))

\* filepath.Clean
Clean(path) ==
    IF path = "" THEN "."
    ELSE LET rooted == IsAbs(path)
             body == JoinSlash(CleanParts(SplitSlash(path, 1, "", <<>>), rooted, <<>>))
         IN  IF rooted THEN "/" \o body
             ELSE IF body = "" THEN "." ELSE body

\* filepath.Join of two elements: empty elements are ignored, the result is cleaned
Join(a, b) ==
    IF a = "" /\ b = "" THEN ""
    ELSE IF a = "" THEN Clean(b)
         ELSE IF b = "" THEN Clean(a)
              ELSE Clean(a \o "/" \o b)

\* filepath.Dir
Dir(path) ==
    LET d == Clean(SubSeq(path, 1, LastSlash(path)))
    IN  d

\* filepath.Ext: from the last "." of the last element, "" when it has none
Ext(path) ==
    LET S == {i \in (LastSlash(path) + 1)..Len(path) : Ch(path, i) = "."}
    IN  IF S = {} THEN "" ELSE From(path, Max(S))

(***************************************************************************)
(* Go regexp, for the patterns of tracker.go                               *)
(***************************************************************************)
\* \w of RE2: [0-9A-Za-z_]
IsWordCh(c) ==
    \/ \E k \in 1..Len(UpperCase) : UpperCase[k] = c \/ LowerCase[k] = c
    \/ c \in Digits
    \/ c = "_"

\* is the character at index i of s a word character (FALSE outside of s)
WordAt(s, i) == i >= 1 /\ i <= Len(s) /\ IsWordCh(Ch(s, i))

\* \b between the characters i and i+1 of s
WordBoundary(s, i) == WordAt(s, i) # WordAt(s, i + 1)

\* does lit occur in s at index i
LitAt(s, i, lit) == i >= 1 /\ i + Len(lit) - 1 <= Len(s) /\ SubSeq(s, i, i + Len(lit) - 1) = lit

\* MatchString of \b(w1|w2|...)\b for a set of literal words
MatchWords(s, words) ==
    \E w \in words : \E i \in 1..Len(s) :
        LitAt(s, i, w) /\ WordBoundary(s, i - 1) /\ WordBoundary(s, i + Len(w) - 1)

\* the end (exclusive) of the maximal run of white space that starts at i
SpaceRunEnd(s, i) ==
    Min({q \in i..(Len(s) + 1) : q = Len(s) + 1 \/ ~IsSpace(Ch(s, q))})

\* the end (exclusive) of the maximal run of [^\s] that starts at i
NonSpaceRunEnd(s, i) ==
    Min({q \in i..(Len(s) + 1) : q = Len(s) + 1 \/ IsSpace(Ch(s, q))})

\* the end (exclusive) of the maximal run of [^@\s] that starts at i
HostRunEnd(s, i) ==
    Min({q \in i..(Len(s) + 1) : q = Len(s) + 1 \/ IsSpace(Ch(s, q)) \/ Ch(s, q) = "@"})

\* can .* span the characters i..j-1 of s (no line feed among them)
DotStar(s, i, j) == \A k \in i..(j - 1) : Ch(s, k) # "\n"

\* ssh\s+(?:.*@)?([^@\s]+) anchored at index i: the capture group, "" for no
\* match.  \s+ and .* are greedy, the optional group is tried first, so the
\* group starts after the last "@" that a host character follows, else right
\* after the white space.
SshMatchAt(s, i) ==
    IF ~LitAt(s, i, "ssh") THEN ""
    ELSE LET q == SpaceRunEnd(s, i + 3)
             ats == {k \in q..Len(s) : /\ Ch(s, k) = "@"
                                       /\ DotStar(s, q, k)
                                       /\ HostRunEnd(s, k + 1) > k + 1}
         IN  IF q = i + 3 THEN ""
             ELSE IF ats # {}
                  THEN SubSeq(s, Max(ats) + 1, HostRunEnd(s, Max(ats) + 1) - 1)
                  ELSE SubSeq(s, q, HostRunEnd(s, q) - 1)

\* <client>\s+.*-h\s+([^\s]+) anchored at index i: the capture group, "" for
\* no match.  .* is greedy, so the last "-h" that white space and a value
\* follow is the one taken.
HostFlagMatchAt(s, i, client) ==
    IF ~LitAt(s, i, client) THEN ""
    ELSE LET q == SpaceRunEnd(s, i + Len(client))
             hs == {k \in q..Len(s) : /\ LitAt(s, k, "-h")
                                      /\ DotStar(s, q, k)
                                      /\ SpaceRunEnd(s, k + 2) > k + 2
                                      /\ SpaceRunEnd(s, k + 2) <= Len(s)}
         IN  IF q = i + Len(client) \/ hs = {} THEN ""
             ELSE LET v == SpaceRunEnd(s, Max(hs) + 2)
                  IN  SubSeq(s, v, NonSpaceRunEnd(s, v) - 1)

\* FindStringSubmatch: the leftmost index at which the pattern matches
SshSubmatch(s) ==
    LET I == {i \in 1..Len(s) : SshMatchAt(s, i) # ""}
    IN  IF I = {} THEN "" ELSE SshMatchAt(s, Min(I))

HostFlagSubmatch(s, client) ==
    LET I == {i \in 1..Len(s) : HostFlagMatchAt(s, i, client) # ""}
    IN  IF I = {} THEN "" ELSE HostFlagMatchAt(s, Min(I), client)

(***************************************************************************)
(* Times.  time.Time is a number of seconds; the zero time.Time (year 1)   *)
(* is 0 and the clock of a running program is far later than that.         *)
(***************************************************************************)
Second == 1
Hour == 60 * 60 * Second

\* config.WakaTimeInterval
WakaTimeInterval == 2 * 60 * Second

\* the zero value of time.Time, as left in Tracker.lastSentTime by NewTracker
ZeroTime == 0

(***************************************************************************)
(* The environment: file system, git, configuration                        *)
(*                                                                         *)
(* A file system is a record                                               *)
(*   cwd      the working directory of the process                         *)
(*   dirs     the directories that exist (cleaned absolute paths)          *)
(*   files    the regular files that exist, each with its number of lines  *)
(*   statErr  paths whose stat fails with an error other than ENOENT       *)
(*   unreadable  files that exist but cannot be opened                     *)
(*   branch   what git rev-parse --abbrev-ref HEAD prints inside a work    *)
(*            tree ("" when it fails)                                      *)
(*   commit   the files the last commit changed: [path, added, deleted]    *)
(*   numstat  None when git diff fails, else Some(the lines it prints)     *)
(*   env      the environment variables of the process (see detectShell)   *)
(***************************************************************************)
Resolve(fs, p) == IF IsAbs(p) THEN Clean(p) ELSE Join(fs.cwd, p)

\* os.Stat: "dir", "file", "noent" (os.IsNotExist) or "error" (any other error)
Stat(fs, p) ==
    LET q == Resolve(fs, p)
    IN  IF q \in fs.statErr THEN "error"
        ELSE IF q \in fs.dirs THEN "dir"
             ELSE IF q \in DOMAIN fs.files THEN "file"
                  ELSE "noent"

isDir(fs, path) == Stat(fs, path) = "dir"

\* getFileLines: nil when the file cannot be opened or read (a directory opens
\* but does not read), else the number of lines
getFileLines(fs, filePath) ==
    IF Stat(fs, filePath) = "file" /\ Resolve(fs, filePath) \notin fs.unreadable
    THEN Some(fs.files[Resolve(fs, filePath)])
    ELSE None

RECURSIVE InWorkTree(_, _)
\* is dir inside a git work tree: it or an ancestor holds .git
InWorkTree(fs, dir) ==
    \/ Join(dir, ".git") \in fs.dirs
    \/ Dir(dir) # dir /\ InWorkTree(fs, Dir(dir))

\* getGitBranch: git rev-parse run in dir; "" on any failure
getGitBranch(fs, dir) ==
    LET d == IF dir = "" THEN fs.cwd ELSE Resolve(fs, dir)
    IN  IF d \in fs.dirs /\ d \notin fs.statErr /\ InWorkTree(fs, d) THEN fs.branch ELSE ""

\* the project markers of detectProject, in the order they are tried
projectFiles == <<".git", "package.json", "go.mod", "Cargo.toml", "pom.xml", "build.gradle",
                  "requirements.txt", "Pipfile", "composer.json", "Gemfile", "mix.exs">>

HasProjectFile(fs, dir) ==
    \E k \in 1..Len(projectFiles) : Stat(fs, Join(dir, projectFiles[k])) \in {"dir", "file"}

RECURSIVE ProjectWalk(_, _, _)
\* the upward loop of detectProject from dir; filePath is the original argument
ProjectWalk(fs, dir, filePath) ==
    IF HasProjectFile(fs, dir) THEN Base(dir)
    ELSE IF Dir(dir) = dir THEN Base(filePath)
         ELSE ProjectWalk(fs, Dir(dir), filePath)

\* no fallback to the name of the path when no marker is found
detectProject_noFallback(cfg, fs, filePath) ==
    IF cfg.Project # "" THEN cfg.Project
    ELSE LET dir == IF isDir(fs, filePath) THEN filePath ELSE Dir(filePath)
         IN  IF \E d \in {dir, Dir(dir), Dir(Dir(dir)), Dir(Dir(Dir(dir)))} :
                    HasProjectFile(fs, d)
             THEN ProjectWalk(fs, dir, filePath)
             ELSE ""

detectProject(cfg, fs, filePath) ==
    IF cfg.Project # "" THEN cfg.Project
    ELSE ProjectWalk(fs, IF isDir(fs, filePath) THEN filePath ELSE Dir(filePath), filePath)

\* the extension table of detectLanguage
ExtLanguage(ext) ==
    CASE ext = ".go" -> "Go"
      [] ext \in {".js", ".jsx"} -> "JavaScript"
      [] ext \in {".ts", ".tsx"} -> "TypeScript"
      [] ext = ".py" -> "Python"
      [] ext = ".rs" -> "Rust"
      [] ext = ".java" -> "Java"
      [] ext = ".c" -> "C"
      [] ext \in {".cpp", ".cc", ".cxx"} -> "C++"
      [] ext \in {".h", ".hpp"} -> "C Header"
      [] ext = ".php" -> "PHP"
      [] ext = ".rb" -> "Ruby"
      [] ext \in {".sh", ".bash", ".zsh"} -> "Shell"
      [] ext \in {".md", ".markdown"} -> "Markdown"
      [] ext \in {".html", ".htm"} -> "HTML"
      [] ext = ".css" -> "CSS"
      [] ext \in {".scss", ".sass"} -> "SCSS"
      [] ext = ".json" -> "JSON"
      [] ext \in {".yaml", ".yml"} -> "YAML"
      [] ext = ".xml" -> "XML"
      [] ext = ".sql" -> "SQL"
      [] ext = ".dockerfile" -> "Docker"
      [] ext = ".toml" -> "TOML"
      [] ext = ".ini" -> "INI"
      [] OTHER -> ""

\* the base-name table of detectLanguage
BaseLanguage(basename) ==
    CASE basename = "dockerfile" -> "Docker"
      [] basename = "makefile" -> "Makefile"
      [] basename \in {"go.mod", "go.sum"} -> "Go Module"
      [] basename \in {"package.json", "package-lock.json"} -> "JSON"
      [] basename \in {"cargo.toml", "cargo.lock"} -> "TOML"
      [] OTHER -> ""

detectLanguage(filePath) ==
    LET byExt == ExtLanguage(ToLower(Ext(filePath)))
    IN  IF byExt # "" THEN byExt ELSE BaseLanguage(ToLower(Base(filePath)))

\* the marker table of detectProjectLanguage
languageFiles == {<<"go.mod", "Go">>, <<"package.json", "JavaScript">>, <<"Cargo.toml", "Rust">>,
                  <<"pom.xml", "Java">>, <<"requirements.txt", "Python">>, <<"setup.py", "Python">>,
                  <<"Gemfile", "Ruby">>, <<"composer.json", "PHP">>}

\* detectProjectLanguage ranges over a Go map, whose iteration order is not
\* fixed: the set of the values it can return
detectProjectLanguage(fs, workingDir) ==
    LET found == {m[2] : m \in {n \in languageFiles :
                                   Stat(fs, Join(workingDir, n[1])) \in {"dir", "file"}}}
    IN  IF found = {} THEN {""} ELSE found

(***************************************************************************)
(* git diff --numstat and its parsing                                      *)
(***************************************************************************)
DigitSeq == <<"0", "1", "2", "3", "4", "5", "6", "7", "8", "9">>

IsDigits(s) == s # "" /\ \A i \in 1..Len(s) : Ch(s, i) \in Digits

RECURSIVE DigitsValue(_, _)
DigitsValue(s, acc) ==
    IF s = "" THEN acc
    ELSE DigitsValue(From(s, 2),
                     10 * acc + (CHOOSE k \in 1..Len(DigitSeq) : DigitSeq[k] = Ch(s, 1)) - 1)

\* strconv.Atoi with its error dropped: 0 for anything that is no decimal number
Atoi(s) ==
    IF IsDigits(s) THEN DigitsValue(s, 0)
    ELSE IF Len(s) > 1 /\ Ch(s, 1) = "+" /\ IsDigits(From(s, 2)) THEN DigitsValue(From(s, 2), 0)
         ELSE IF Len(s) > 1 /\ Ch(s, 1) = "-" /\ IsDigits(From(s, 2))
              THEN 0 - DigitsValue(From(s, 2), 0)
              ELSE 0

RECURSIVE SplitLines(_, _, _)
\* strings.Split(s, "\n"): the lines of s from position i on, after those of acc
SplitLines(s, i, acc) ==
    LET newlines == {k \in i..Len(s) : Ch(s, k) = "\n"}
    IN  IF newlines = {} THEN Append(acc, SubSeq(s, i, Len(s)))
        ELSE SplitLines(s, Min(newlines) + 1, Append(acc, SubSeq(s, i, Min(newlines) - 1)))

RECURSIVE ParseNumstat(_, _)
ParseNumstat(lines, acc) ==
    IF lines = <<>> THEN acc
    ELSE LET parts == Fields(Head(lines))
         IN  IF Len(parts) >= 3
             THEN ParseNumstat(Tail(lines),
                               Append(acc, [FilePath |-> parts[3],
                                            LineAdditions |-> Atoi(parts[1]),
                                            LineDeletions |-> Atoi(parts[2])]))
             ELSE ParseNumstat(Tail(lines), acc)

\* getGitChangedFiles: [err, changes]
getGitChangedFiles(fs, dir) ==
    LET d == IF dir = "" THEN fs.cwd ELSE Resolve(fs, dir)
    IN  IF d \in fs.dirs /\ d \notin fs.statErr /\ InWorkTree(fs, d) /\ fs.numstat # None
        THEN [err |-> FALSE, changes |-> ParseNumstat(SplitLines(fs.numstat[1], 1, <<>>), <<>>)]
        ELSE [err |-> TRUE, changes |-> <<>>]

(***************************************************************************)
(* The classifier: Tracker.parseCommandToSingleActivity and its handlers   *)
(***************************************************************************)
ActivityFile == "file"
ActivityApp == "app"
ActivityDomain == "domain"

\* an Activity with the optional fields at their zero values
Activity(entity, entityType, category, project, branch, clock) ==
    [Entity |-> entity, EntityType |-> entityType, Category |-> category, Language |-> "",
     Project |-> project, Branch |-> branch, IsWrite |-> FALSE, Timestamp |-> clock,
     Lines |-> None, LineNo |-> None, CursorPos |-> None,
     LineAdditions |-> None, LineDeletions |-> None]

\* the words of editorPatterns; each pattern is \b(...)\b
editorPatterns == {"vi", "vim", "nvim", "emacs", "nano", "code", "subl", "sublime_text",
                   "atom", "idea", "intellij", "pycharm", "webstorm"}

isEditor(cmdName) == MatchWords(cmdName, editorPatterns)

codingAppNames == {"amp", "claude", "cursor", "node", "python", "go", "java", "rust", "php",
                   "ruby", "psql", "mysql", "mongo", "redis", "docker", "kubectl", "helm",
                   "make", "cmake", "ninja", "npm", "yarn", "pip", "cargo", "mvn", "gradle",
                   "git"}

\* the category codingApps gives a name
codingApps(name) ==
    IF name \in {"docker", "make", "cmake", "ninja", "npm", "yarn", "pip", "cargo", "mvn",
                 "gradle"}
    THEN "building"
    ELSE IF name = "git" THEN "code reviewing" ELSE "coding"

buildTestCommands == {"npm", "yarn", "pnpm", "bun", "cargo", "go", "mvn", "gradle", "make",
                      "cmake", "ninja", "python", "pytest", "jest", "mocha", "tsc", "webpack",
                      "vite", "rollup", "docker", "docker-compose", "terraform", "ansible"}

isBuildTestCommand(cmdName) == cmdName \in buildTestCommands

isTestCommand(subcommand) ==
    subcommand \in {"test", "check", "verify", "spec", "jest", "mocha", "pytest"}

isBuildCommand(subcommand) ==
    subcommand \in {"build", "compile", "install", "deploy", "publish", "dist", "bundle"}

getDefaultLineNumber == Some(1)
getDefaultCursorPos == Some(1)

\* the argument as it was typed
EditorPath_asTyped(arg, workingDir) == arg

\* the resolved path of an editor argument
EditorPath(arg, workingDir) == IF IsAbs(arg) THEN arg ELSE Join(workingDir, arg)

\* the arguments of an editor command that are no flags
EditorArgs(fields) == SelectSeq(Tail(fields), LAMBDA a : ~HasPrefix(a, "-"))

\* the accepted file arguments of an editor command, resolved, in argument order
EditorFiles(fs, fields, workingDir) ==
    LET args == EditorArgs(fields)
    IN  SelectSeq([i \in 1..Len(args) |-> EditorPath(args[i], workingDir)],
                  \* os.Stat(filePath); err == nil || !os.IsNotExist(err)
                  LAMBDA f : Stat(fs, f) # "noent")

\* the line count of the first file alone
SumLines_primaryOnly(fs, paths) ==
    IF paths = <<>> \/ getFileLines(fs, Head(paths)) = None THEN 0
    ELSE getFileLines(fs, Head(paths))[1]

RECURSIVE SumLines(_, _)
SumLines(fs, paths) ==
    IF paths = <<>> THEN 0
    ELSE (IF getFileLines(fs, Head(paths)) = None THEN 0 ELSE getFileLines(fs, Head(paths))[1])
         + SumLines(fs, Tail(paths))

handleEditorCommandSingle(cfg, fs, clock, fields, workingDir) ==
    LET cmdName == Base(fields[1])
        accepted == EditorFiles(fs, fields, workingDir)
    IN  IF Len(accepted) > 0
        THEN LET primaryFile == accepted[1]
             IN  [Activity(primaryFile, ActivityFile, "coding",
                           detectProject(cfg, fs, primaryFile),
                           getGitBranch(fs, Dir(primaryFile)), clock)
                  EXCEPT !.Language = detectLanguage(primaryFile),
                         !.IsWrite = TRUE,
                         !.Lines = Some(SumLines(fs, accepted)),
                         !.LineNo = getDefaultLineNumber,
                         !.CursorPos = getDefaultCursorPos]
        ELSE Activity(cmdName, ActivityApp, "coding", detectProject(cfg, fs, workingDir),
                      getGitBranch(fs, workingDir), clock)

RECURSIVE SumChanges(_, _, _)
\* the totals of handleGitCommandSingle over the changed files
SumChanges(fs, workingDir, changes) ==
    IF changes = <<>> THEN [additions |-> 0, deletions |-> 0, lines |-> 0]
    ELSE LET c == Head(changes)
             rest == SumChanges(fs, workingDir, Tail(changes))
             n == getFileLines(fs, Join(workingDir, c.FilePath))
         IN  [additions |-> c.LineAdditions + rest.additions,
              deletions |-> c.LineDeletions + rest.deletions,
              lines |-> (IF n = None THEN 0 ELSE n[1]) + rest.lines]

\* the third token kept in the entity
handleGitCommandSingle_keepsArgument(cfg, fs, clock, fields, workingDir) ==
    Activity(IF Len(fields) < 2 THEN "git"
             ELSE IF Len(fields) < 3 THEN "git " \o fields[2]
             ELSE "git " \o fields[2] \o " " \o fields[3],
             ActivityApp, "coding", detectProject(cfg, fs, workingDir),
             getGitBranch(fs, workingDir), clock)

handleGitCommandSingle(cfg, fs, clock, fields, workingDir) ==
    LET project == detectProject(cfg, fs, workingDir)
        branch == getGitBranch(fs, workingDir)
    IN  IF Len(fields) < 2
        THEN Activity("git", ActivityApp, "coding", project, branch, clock)
        ELSE LET gitSubcommand == fields[2]
                 entity == "git " \o gitSubcommand
             IN  IF gitSubcommand \in {"commit", "push", "merge", "rebase"}
                 THEN LET got == getGitChangedFiles(fs, workingDir)
                          tot == SumChanges(fs, workingDir,
                                            IF ~got.err /\ Len(got.changes) > 0
                                            THEN got.changes ELSE <<>>)
                      IN  [Activity(entity, ActivityApp, "coding", project, branch, clock)
                           EXCEPT !.IsWrite = TRUE,
                                  !.Lines = Some(tot.lines),
                                  !.LineAdditions = Some(tot.additions),
                                  !.LineDeletions = Some(tot.deletions)]
                 ELSE Activity(entity, ActivityApp, "coding", project, branch, clock)

\* language is the value detectProjectLanguage returned for workingDir
handleBuildTestCommandSingle(cfg, fs, clock, fields, workingDir, language) ==
    LET cmdName == fields[1]
        subcommand == IF Len(fields) > 1 THEN fields[2] ELSE ""
        entity == IF subcommand # "" THEN cmdName \o " " \o subcommand ELSE cmdName
        category == IF isTestCommand(subcommand) THEN "debugging"
                    ELSE IF isBuildCommand(subcommand) THEN "building" ELSE "coding"
    IN  [Activity(entity, ActivityApp, category, detectProject(cfg, fs, workingDir),
                  getGitBranch(fs, workingDir), clock)
         EXCEPT !.Language = language]

\* remotePatterns, tried in order; the first capture group of the first that matches
parseRemoteConnection(command) ==
    IF SshSubmatch(command) # "" THEN SshSubmatch(command)
    ELSE IF HostFlagSubmatch(command, "mysql") # "" THEN HostFlagSubmatch(command, "mysql")
    ELSE IF HostFlagSubmatch(command, "psql") # "" THEN HostFlagSubmatch(command, "psql")
    ELSE HostFlagSubmatch(command, "redis-cli")

\* the target of a cd command, resolved against workingDir
CdTarget(fields, workingDir) ==
    IF IsAbs(fields[2]) THEN fields[2] ELSE Join(workingDir, fields[2])

\* the coding-app table consulted before the build and test tools
classifyTokens_appsFirst(cfg, fs, clock, command, workingDir, language) ==
    LET fields == Fields(command)
        cmdName == Base(fields[1])
    IN  IF isEditor(cmdName)
        THEN handleEditorCommandSingle(cfg, fs, clock, fields, workingDir)
        ELSE IF cmdName = "git"
        THEN handleGitCommandSingle(cfg, fs, clock, fields, workingDir)
        ELSE IF cmdName \in codingAppNames
        THEN Activity(cmdName, ActivityApp, codingApps(cmdName),
                      detectProject(cfg, fs, workingDir), getGitBranch(fs, workingDir), clock)
        ELSE IF isBuildTestCommand(cmdName)
        THEN handleBuildTestCommandSingle(cfg, fs, clock, fields, workingDir, language)
        ELSE IF parseRemoteConnection(command) # ""
        THEN Activity(parseRemoteConnection(command), ActivityDomain, "coding",
                      detectProject(cfg, fs, workingDir), "", clock)
        ELSE IF cmdName = "cd" /\ Len(fields) > 1
        THEN Activity(CdTarget(fields, workingDir), ActivityFile, "browsing",
                      detectProject(cfg, fs, CdTarget(fields, workingDir)),
                      getGitBranch(fs, CdTarget(fields, workingDir)), clock)
        ELSE Activity(cmdName, ActivityApp, "coding", detectProject(cfg, fs, workingDir),
                      getGitBranch(fs, workingDir), clock)

\* the rules of parseCommandToSingleActivity for a command that has a token,
\* tried in the order of the code: editor, git, build or test tool, coding-app
\* table, remote connection, cd, then the fallback.  language is the value
\* detectProjectLanguage returned, used by the build/test handler only.
classifyTokens(cfg, fs, clock, command, workingDir, language) ==
    LET fields == Fields(command)
        cmdName == Base(fields[1])
    IN  IF isEditor(cmdName)
        THEN handleEditorCommandSingle(cfg, fs, clock, fields, workingDir)
        ELSE IF cmdName = "git"
        THEN handleGitCommandSingle(cfg, fs, clock, fields, workingDir)
        ELSE IF isBuildTestCommand(cmdName)
        THEN handleBuildTestCommandSingle(cfg, fs, clock, fields, workingDir, language)
        ELSE IF cmdName \in codingAppNames
        THEN Activity(cmdName, ActivityApp, codingApps(cmdName),
                      detectProject(cfg, fs, workingDir), getGitBranch(fs, workingDir), clock)
        ELSE IF parseRemoteConnection(command) # ""
        THEN Activity(parseRemoteConnection(command), ActivityDomain, "coding",
                      detectProject(cfg, fs, workingDir), "", clock)
        ELSE IF cmdName = "cd" /\ Len(fields) > 1
        THEN Activity(CdTarget(fields, workingDir), ActivityFile, "browsing",
                      detectProject(cfg, fs, CdTarget(fields, workingDir)),
                      getGitBranch(fs, CdTarget(fields, workingDir)), clock)
        ELSE Activity(cmdName, ActivityApp, "coding", detectProject(cfg, fs, workingDir),
                      getGitBranch(fs, workingDir), clock)

\* a command of one token taken for an empty one
parseCommandToSingleActivity_oneToken(cfg, fs, clock, command, workingDir, language) ==
    IF Len(Fields(command)) <= 1 THEN None
    ELSE Some(classifyTokens(cfg, fs, clock, command, workingDir, language))

\* parseCommandToSingleActivity: None (nil) or Some(activity)
parseCommandToSingleActivity(cfg, fs, clock, command, workingDir, language) ==
    IF Len(Fields(command)) = 0 THEN None
    ELSE Some(classifyTokens(cfg, fs, clock, command, workingDir, language))

(***************************************************************************)
(* The wakatime-cli wrapper (pkg/wakatime).  The installed binary is       *)
(* cli.bin: "absent", "good" (runs --version and exits zero) or "broken"   *)
(* (a file is there but does not run: a truncated copy).                   *)
(* cli.lastUpdateCheck is the time in the last_update_check file, ZeroTime *)
(* when the file is missing or unreadable.  What the network does during a *)
(* call is net.lookup (getLatestRelease inside checkForUpdates: "fail",    *)
(* "same" tag, "newer" tag) and net.install (install: "ok", "fail" before  *)
(* the binary is opened for writing, "partial" when the copy breaks off).  *)
(***************************************************************************)
CheckUpdateInterval == 24 * Hour

IsInstalled(cli) == cli.bin = "good"

\* install: [err, cli]
install(cli, clock, net) ==
    CASE net.install = "ok" ->
            [err |-> FALSE, cli |-> [bin |-> "good", lastUpdateCheck |-> clock]]
      [] net.install = "partial" ->
            [err |-> TRUE, cli |-> [cli EXCEPT !.bin = "broken"]]
      [] OTHER -> [err |-> TRUE, cli |-> cli]

\* checkForUpdates: always returns nil; [err, cli]
checkForUpdates(cli, clock, net) ==
    IF clock - cli.lastUpdateCheck < CheckUpdateInterval \/ net.lookup = "fail"
    THEN [err |-> FALSE, cli |-> cli]
    ELSE LET after == IF net.lookup = "newer" THEN install(cli, clock, net).cli ELSE cli
         IN  [err |-> FALSE, cli |-> [after EXCEPT !.lastUpdateCheck = clock]]

EnsureInstalled(cli, clock, net) ==
    IF IsInstalled(cli) THEN checkForUpdates(cli, clock, net) ELSE install(cli, clock, net)

\* SendHeartbeat: does cmd.Run() return an error.  exit is the exit status the
\* tool would end with; a binary that is not there or does not run is an error.
SendHeartbeat(cli, activity, exit) == cli.bin # "good" \/ exit # 0

(***************************************************************************)
(* The command line of wakatime-cli                                        *)
(*                                                                         *)
(* fs.env is the environment of the process: the variables ZSH_VERSION,    *)
(* BASH_VERSION and SHELL ("" when unset) and probe, the version read from *)
(* the output of "<shell> --version" ("unknown" when that fails).          *)
(***************************************************************************)
PluginName == "terminal-wakatime"

PluginVersion == "dev"

detectShell(env) ==
    IF env.ZSH_VERSION # "" THEN "zsh"
    ELSE IF env.BASH_VERSION # "" THEN "bash"
    ELSE IF env.SHELL # "" /\ Base(env.SHELL) = "fish" THEN "fish"   \* isRunningInFish
    ELSE IF env.SHELL = "" THEN "bash"
    ELSE IF Base(env.SHELL) \in {"zsh", "fish"} THEN Base(env.SHELL)
    ELSE "bash"

\* idx is strings.Index(version, "(") as a position from 1, 0 when there is none
GetShellVersion(env, shell) ==
    CASE shell = "zsh" -> IF env.ZSH_VERSION # "" THEN env.ZSH_VERSION ELSE env.probe
      [] shell = "bash" ->
            LET version == env.BASH_VERSION
                parens == {i \in 1..Len(version) : Ch(version, i) = "("}
                idx == IF parens # {} THEN Min(parens) ELSE 0
            IN  IF version # ""
                THEN IF idx # 0 THEN SubSeq(version, 1, idx - 1) ELSE version
                ELSE env.probe
      [] shell = "fish" -> env.probe
      [] OTHER -> "unknown"

FormatPluginString(env, pluginName, pluginVersion) ==
    detectShell(env) \o "/" \o GetShellVersion(env, detectShell(env)) \o " "
        \o pluginName \o "/" \o pluginVersion

RECURSIVE FormatInt(_)
\* fmt.Sprintf("%d", n)
FormatInt(n) ==
    IF n < 0 THEN "-" \o FormatInt(0 - n)
    ELSE IF n < 10 THEN DigitSeq[n + 1]
    ELSE FormatInt(n \div 10) \o DigitSeq[(n % 10) + 1]

\* the optional flags passed whether their fields are set or not
SendHeartbeatArgs_allFlags(config, env, a) ==
    <<"--entity", a.Entity, "--plugin", FormatPluginString(env, PluginName, PluginVersion),
      "--entity-type", a.EntityType, "--category", a.Category, "--language", a.Language,
      "--project", a.Project, "--alternate-project", a.Branch, "--write">>

\* the arguments SendHeartbeat runs the binary with
SendHeartbeatArgs(config, env, a) ==
    LET FlagString(flag, value) == IF value # "" THEN <<flag, value>> ELSE <<>>
        FlagInt(flag, ptr) == IF ptr # None THEN <<flag, FormatInt(ptr[1])>> ELSE <<>>
    IN
    <<"--entity", a.Entity, "--plugin", FormatPluginString(env, PluginName, PluginVersion)>>
        \o FlagString("--entity-type", a.EntityType)
        \o FlagString("--category", a.Category)
        \o FlagString("--language", a.Language)
        \o FlagString("--project", a.Project)
        \o FlagString("--alternate-project", a.Branch)
        \o (IF a.IsWrite THEN <<"--write">> ELSE <<>>)
        \o FlagInt("--lines-in-file", a.Lines)
        \o FlagInt("--lineno", a.LineNo)
        \o FlagInt("--cursorpos", a.CursorPos)
        \o FlagInt("--line-additions", a.LineAdditions)
        \o FlagInt("--line-deletions", a.LineDeletions)
        \o (IF config.Debug THEN <<"--verbose">> ELSE <<>>)

(***************************************************************************)
(* The heartbeat gate and the Tracker                                      *)
(***************************************************************************)
\* NewTracker: the zero time, no entity, an empty map of suggestions
NewTracker ==
    [lastSentTime |-> ZeroTime, lastSentFile |-> "", suggestions |-> [k \in {} |-> ZeroTime]]

\* time.Since(t) at clock
Since(clock, t) == clock - t

\* the write flag ignored
shouldSendHeartbeat_noWrite(t, activity, clock) ==
    IF activity.Entity # t.lastSentFile THEN TRUE
    ELSE Since(clock, t.lastSentTime) >= WakaTimeInterval

\* the entity ignored: the interval alone decides for a non-write
shouldSendHeartbeat_noEntity(t, activity, clock) ==
    IF activity.IsWrite THEN TRUE
    ELSE Since(clock, t.lastSentTime) >= WakaTimeInterval

\* the interval compared with > instead of >=
shouldSendHeartbeat_strict(t, activity, clock) ==
    IF activity.IsWrite THEN TRUE
    ELSE IF activity.Entity # t.lastSentFile THEN TRUE
    ELSE Since(clock, t.lastSentTime) > WakaTimeInterval

\* the interval taken to count from a heartbeat sent before only
shouldSendHeartbeat_needsHistory(t, activity, clock) ==
    IF activity.IsWrite THEN TRUE
    ELSE IF activity.Entity # t.lastSentFile THEN TRUE
    ELSE t.lastSentTime # ZeroTime /\ Since(clock, t.lastSentTime) >= WakaTimeInterval

shouldSendHeartbeat(t, activity, clock) ==
    IF activity.IsWrite THEN TRUE
    ELSE IF activity.Entity # t.lastSentFile THEN TRUE
    ELSE Since(clock, t.lastSentTime) >= WakaTimeInterval

\* showEditorSuggestion: [suggestions, shown]
showEditorSuggestion(cfg, t, clock, editor) ==
    LET key == "editor:" \o editor
        recent == key \in DOMAIN t.suggestions
                  /\ Since(clock, t.suggestions[key]) < cfg.EditorSuggestionFrequency
    IN  IF /\ ~cfg.DisableEditorSuggestions
           /\ ~recent
           \* the editors getEditorSuggestion has a text for
           /\ editor \in {"vim", "emacs", "code", "nano", "sublime", "atom"}
        THEN [suggestions |-> (key :> clock) @@ t.suggestions, shown |-> TRUE]
        ELSE [suggestions |-> t.suggestions, shown |-> FALSE]

\* the tracker after the side effect of classifying command (the editor handler
\* shows the suggestion), and whether a suggestion was printed
AfterClassify(cfg, t, clock, command) ==
    LET fields == Fields(command)
    IN  IF Len(fields) > 0 /\ isEditor(Base(fields[1]))
        THEN LET r == showEditorSuggestion(cfg, t, clock, Base(fields[1]))
             IN  [tracker |-> [t EXCEPT !.suggestions = r.suggestions], shown |-> r.shown]
        ELSE [tracker |-> t, shown |-> FALSE]

\* the gate state recorded before the outcome of SendHeartbeat is known
sendActivity_recordsFailure(t, cli, activity, clock, net, exit) ==
    IF ~shouldSendHeartbeat(t, activity, clock)
    THEN [tracker |-> t, cli |-> cli, gate |-> FALSE, ensured |-> "skipped",
          invoked |-> FALSE, err |-> FALSE]
    ELSE LET e == EnsureInstalled(cli, clock, net)
         IN  IF e.err
             THEN [tracker |-> t, cli |-> e.cli, gate |-> TRUE, ensured |-> "fail",
                   invoked |-> FALSE, err |-> TRUE]
             ELSE [tracker |-> [t EXCEPT !.lastSentTime = activity.Timestamp,
                                         !.lastSentFile = activity.Entity],
                   cli |-> e.cli, gate |-> TRUE, ensured |-> "ok", invoked |-> TRUE,
                   err |-> SendHeartbeat(e.cli, activity, exit)]

\* a successful send records the time but not the entity
sendActivity_timeOnly(t, cli, activity, clock, net, exit) ==
    IF ~shouldSendHeartbeat(t, activity, clock)
    THEN [tracker |-> t, cli |-> cli, gate |-> FALSE, ensured |-> "skipped",
          invoked |-> FALSE, err |-> FALSE]
    ELSE LET e == EnsureInstalled(cli, clock, net)
         IN  IF e.err
             THEN [tracker |-> t, cli |-> e.cli, gate |-> TRUE, ensured |-> "fail",
                   invoked |-> FALSE, err |-> TRUE]
             ELSE LET failed == SendHeartbeat(e.cli, activity, exit)
                  IN  [tracker |-> IF failed THEN t
                                   ELSE [t EXCEPT !.lastSentTime = activity.Timestamp],
                       cli |-> e.cli, gate |-> TRUE, ensured |-> "ok",
                       invoked |-> TRUE, err |-> failed]

\* the tool run although EnsureInstalled returned an error
sendActivity_ignoresInstallError(t, cli, activity, clock, net, exit) ==
    IF ~shouldSendHeartbeat(t, activity, clock)
    THEN [tracker |-> t, cli |-> cli, gate |-> FALSE, ensured |-> "skipped",
          invoked |-> FALSE, err |-> FALSE]
    ELSE LET e == EnsureInstalled(cli, clock, net)
             failed == SendHeartbeat(e.cli, activity, exit)
         IN  [tracker |-> IF failed THEN t
                          ELSE [t EXCEPT !.lastSentTime = activity.Timestamp,
                                         !.lastSentFile = activity.Entity],
              cli |-> e.cli, gate |-> TRUE, ensured |-> IF e.err THEN "fail" ELSE "ok",
              invoked |-> TRUE, err |-> failed]

\* sendActivity: the tracker and the cli after it, and what it did.
\*   gate     what shouldSendHeartbeat returned
\*   ensured  "skipped" (not reached), "ok" or "fail"
\*   invoked  was SendHeartbeat called
\*   err      did sendActivity return an error
sendActivity(t, cli, activity, clock, net, exit) ==
    IF ~shouldSendHeartbeat(t, activity, clock)
    THEN [tracker |-> t, cli |-> cli, gate |-> FALSE, ensured |-> "skipped",
          invoked |-> FALSE, err |-> FALSE]
    ELSE LET e == EnsureInstalled(cli, clock, net)
         IN  IF e.err
             THEN [tracker |-> t, cli |-> e.cli, gate |-> TRUE, ensured |-> "fail",
                   invoked |-> FALSE, err |-> TRUE]
             ELSE LET failed == SendHeartbeat(e.cli, activity, exit)
                  IN  [tracker |-> IF failed THEN t
                                   ELSE [t EXCEPT !.lastSentTime = activity.Timestamp,
                                                  !.lastSentFile = activity.Entity],
                       cli |-> e.cli, gate |-> TRUE, ensured |-> "ok",
                       invoked |-> TRUE, err |-> failed]

\* what a handler did when it never reached sendActivity
NotSent(t, cli) ==
    [tracker |-> t, cli |-> cli, gate |-> FALSE, ensured |-> "skipped",
     invoked |-> FALSE, err |-> FALSE]

\* TrackCommand up to the gate: the activity of the command (none for nil),
\* whether the editor handler printed a suggestion, and the tracker after it
classifyCommand(cfg, fs, t, clock, command, workingDir, language) ==
    LET t1 == AfterClassify(cfg, t, clock, command)
    IN  [act |-> parseCommandToSingleActivity(cfg, fs, clock, command, workingDir, language),
         shown |-> t1.shown, tracker |-> t1.tracker]

\* TrackCommand: classify (c is the outcome), then send unless the classifier
\* returned nil
TrackCommand(c, cli, clock, net, exit) ==
    [act |-> c.act, shown |-> c.shown,
     sent |-> IF c.act # None
              THEN sendActivity(c.tracker, cli, c.act[1], clock, net, exit)
              ELSE NotSent(c.tracker, cli)]

\* the activity TrackFile builds for a file
fileActivity(cfg, fs, clock, filePath, isWrite) ==
    [Activity(filePath, ActivityFile, "coding", detectProject(cfg, fs, filePath),
              getGitBranch(fs, Dir(filePath)), clock)
     EXCEPT !.Language = detectLanguage(filePath),
            !.IsWrite = isWrite,
            !.Lines = getFileLines(fs, filePath),
            !.LineNo = getDefaultLineNumber,
            !.CursorPos = getDefaultCursorPos]

\* TrackFile: build the activity, then send
TrackFile(t, cli, activity, clock, net, exit) ==
    [act |-> Some(activity), shown |-> FALSE,
     sent |-> sendActivity(t, cli, activity, clock, net, exit)]

(***************************************************************************)
(* The state machine                                                       *)
(***************************************************************************)
VARIABLES
    now,         \* the wall clock
    cfg,         \* the loaded config.Config
    fs,          \* the file system and git
    cli,         \* the wakatime-cli install: [bin, lastUpdateCheck]
    tracker,     \* the Tracker of the running monitor: None or Some(tracker)
    commandLog,  \* commands.log: None, or Some(the last entry appended)
    lastOp,      \* what the last handler did
    lastFwd,     \* None, or Some([Entity, Timestamp]) of the last activity the
                 \* running tracker forwarded with success
    prevTrack,   \* None, or Some(summary of the track process before the last)
    clsIn,       \* the classifier under test: [command, workingDir]
    clsOut,      \* <<>> before the classifier ran, then <<its result>>
    proc,        \* the track process followed call by call: where it is
    hook,        \* the interactive shells that run the generated hooks
    upd          \* the self-update: its files and the processes that check

vars == <<now, cfg, fs, cli, tracker, commandLog, lastOp, lastFwd, prevTrack, clsIn, clsOut,
          proc, hook, upd>>

\* the clock when the model starts: any time later than a day after ZeroTime
StartTime == 2 * CheckUpdateInterval

\* how long the model runs, in half minutes
MaxHalfMinutes == 5

\* the last instant of the model, in seconds after StartTime
MaxClock == MaxHalfMinutes * 30 * Second

\* how long EnsureInstalled and SendHeartbeat take together
SendLatencies == {0, 30 * Second}

NetOutcomes == [lookup : {"fail", "same", "newer"}, install : {"ok", "fail", "partial"}]

ExitCodes == {0, 1}

DefaultConfig ==
    [Project |-> "", Debug |-> FALSE,
     MinCommandTime |-> 2 * Second,   \* config.DefaultMinCommandTime
     DisableEditorSuggestions |-> FALSE, EditorSuggestionFrequency |-> 24 * Hour]

RECURSIVE SumOf(_, _)
\* the sum of a field ("added" or "deleted") over the files of a commit
SumOf(commit, field) ==
    IF commit = <<>> THEN 0 ELSE Head(commit)[field] + SumOf(Tail(commit), field)

RECURSIVE GitDiffLines(_, _)
\* one line for each file: "added TAB deleted TAB path" of --numstat, or
\* " path | changed graph" of --stat
GitDiffLines(commit, numstat) ==
    IF commit = <<>> THEN ""
    ELSE LET f == Head(commit)
         IN  (IF numstat
              THEN FormatInt(f.added) \o "\t" \o FormatInt(f.deleted) \o "\t" \o f.path
              ELSE " " \o f.path \o " | " \o FormatInt(f.added + f.deleted) \o " "
                       \o (IF f.added > 0 THEN "+" ELSE "") \o (IF f.deleted > 0 THEN "-" ELSE ""))
             \o "\n" \o GitDiffLines(Tail(commit), numstat)

\* what git diff --stat HEAD~1 HEAD --numstat prints for a commit: git honours
\* both formats, the numstat lines come first, then the stat lines and the
\* summary line
GitDiffOutput(commit) ==
    IF commit = <<>> THEN ""
    ELSE LET n == Len(commit)
             a == SumOf(commit, "added")
             d == SumOf(commit, "deleted")
         IN  GitDiffLines(commit, TRUE) \o GitDiffLines(commit, FALSE)
                 \o " " \o FormatInt(n) \o (IF n = 1 THEN " file changed" ELSE " files changed")
                 \o (IF a = 0 THEN "" ELSE ", " \o FormatInt(a)
                         \o (IF a = 1 THEN " insertion(+)" ELSE " insertions(+)"))
                 \o (IF d = 0 THEN "" ELSE ", " \o FormatInt(d)
                         \o (IF d = 1 THEN " deletion(-)" ELSE " deletions(-)"))
                 \o "\n"

\* the files the last commit of /tmp/proj changed
ProjCommit == <<[path |-> "main.go", added |-> 5, deleted |-> 2]>>

\* a git work tree /tmp/proj of a Go module with a package.json beside go.mod,
\* with one commit that changed main.go
ProjFS ==
    [cwd |-> "/tmp/proj",
     dirs |-> {"/", "/tmp", "/tmp/proj", "/tmp/proj/.git", "/home", "/home/u"},
     files |-> ("/tmp/proj/main.go" :> 10 @@ "/tmp/proj/go.mod" :> 3
                @@ "/tmp/proj/package.json" :> 4 @@ "/tmp/proj/file.txt" :> 2),
     statErr |-> {}, unreadable |-> {},
     branch |-> "main", commit |-> ProjCommit, numstat |-> Some(GitDiffOutput(ProjCommit)),
     env |-> [ZSH_VERSION |-> "5.8", BASH_VERSION |-> "", SHELL |-> "/bin/zsh",
              probe |-> "unknown"]]

\* no project anywhere: /tmp/proj is an empty directory outside of git
BareFS ==
    [cwd |-> "/tmp/proj",
     dirs |-> {"/", "/tmp", "/tmp/proj", "/home", "/home/u"},
     files |-> [p \in {} |-> 0],
     statErr |-> {}, unreadable |-> {},
     branch |-> "", commit |-> <<>>, numstat |-> None,
     env |-> [ZSH_VERSION |-> "", BASH_VERSION |-> "5.1.16(1)-release",
              SHELL |-> "/usr/bin/fish", probe |-> "3.4.1"]]

GateState(t) == [lastSentFile |-> t.lastSentFile, lastSentTime |-> t.lastSentTime]

\* the record of a handler run.  pre and post are the gate state before and
\* after it, at is the clock when the gate was asked, args the arguments
\* wakatime-cli was run with (none when it was not run).
OpRecord(kind, command, pwd, t, r, clock) ==
    [kind |-> kind, command |-> command, pwd |-> pwd, act |-> r.act,
     pre |-> GateState(t), post |-> GateState(r.sent.tracker), at |-> clock,
     gate |-> r.sent.gate, ensured |-> r.sent.ensured, invoked |-> r.sent.invoked,
     err |-> r.sent.err, shown |-> r.shown,
     args |-> IF r.sent.invoked THEN SendHeartbeatArgs(cfg, fs.env, r.act[1]) ELSE <<>>]

\* a handler that stopped before the classifier
Stopped(t, c, err) ==
    [act |-> None, shown |-> FALSE, sent |-> [NotSent(t, c) EXCEPT !.err = err]]

NoOp == OpRecord("none", "", "", NewTracker, Stopped(NewTracker, 0, FALSE), StartTime)

\* lastFwd after a handler run
Forwarded(r, fwd) ==
    IF r.sent.invoked /\ ~r.sent.err
    THEN Some([Entity |-> r.act[1].Entity, Timestamp |-> r.act[1].Timestamp])
    ELSE fwd

\* logCommand: appends an entry in debug mode only
logCommand(config, log, clock, command, duration, workingDir) ==
    IF config.Debug
    THEN Some([timestamp |-> clock, workingDir |-> workingDir, duration |-> duration,
               command |-> command])
    ELSE log

\* the handler took lat seconds
Elapse(lat) ==
    /\ now + lat <= StartTime + MaxClock
    /\ now' = now + lat

\* no classifier under test
NoInput == [command |-> "", workingDir |-> ""]

\* no track process is being followed
Idle ==
    [at |-> "idle", command |-> "", pwd |-> "",
     c |-> [act |-> None, shown |-> FALSE, tracker |-> NewTracker],
     cli0 |-> [bin |-> "absent", lastUpdateCheck |-> ZeroTime],
     net |-> [lookup |-> "same", install |-> "ok"], stderr |-> <<>>]

\* no shell runs the hooks
NoHook == [shell |-> "", bp |-> FALSE, stack |-> <<>>, tracks |-> <<>>, executed |-> 0]

\* no process checks for an update of terminal-wakatime
NoUpdate ==
    [lastCheck |-> None, lastCheck0 |-> None, temp |-> None, bin |-> None, writable |-> TRUE,
     inode |-> <<>>, info |-> None, moved |-> <<>>, p |-> <<>>]

InitCommon ==
    /\ proc = Idle
    /\ now = StartTime
    /\ commandLog = None
    /\ lastOp = NoOp
    /\ lastFwd = None
    /\ prevTrack = None
    /\ clsOut = <<>>

(***************************************************************************)
(* A long-running monitor: one Tracker handles many commands and file      *)
(* edits (NewMonitor, then ProcessCommand and ProcessFileEdit).            *)
(***************************************************************************)
Commands == {"", "ls -la", "cat file.txt"}

Durations == {1 * Second, 2 * Second, 3 * Second}

WorkDirs == {"/tmp/proj"}

Init ==
    /\ InitCommon
    /\ hook = NoHook
    /\ upd = NoUpdate
    /\ clsIn = NoInput
    /\ cfg = DefaultConfig
    /\ fs = ProjFS
    /\ cli \in {[bin |-> "absent", lastUpdateCheck |-> ZeroTime],
                [bin |-> "good", lastUpdateCheck |-> StartTime]}
    /\ tracker = None

NewMonitor ==
    /\ tracker' = Some(NewTracker)
    /\ lastFwd' = None
    /\ lastOp' = [NoOp EXCEPT !.kind = "new", !.at = now]
    /\ UNCHANGED <<now, cfg, fs, cli, commandLog, prevTrack, clsIn, hook, upd, clsOut, proc>>

\* the values detectProjectLanguage can return to the handler of the command
\* ("" stands for it when the command never reaches the build or test handler)
ProjectLanguages(fs_, command, workingDir) ==
    LET fields == Fields(command)
    IN  IF fields # <<>> /\ isBuildTestCommand(Base(fields[1]))
        THEN detectProjectLanguage(fs_, workingDir)
        ELSE {""}

\* every command is tracked, however short
ProcessCommand_noThreshold(command, duration, workingDir) ==
    /\ tracker # None
    /\ \E language \in ProjectLanguages(fs, command, workingDir) :
       \E c \in {classifyCommand(cfg, fs, tracker[1], now, command, workingDir, language)} :
       \E r \in {TrackCommand(c, cli, now, net, exit) : net \in NetOutcomes, exit \in ExitCodes} :
       \E lat \in IF r.sent.gate THEN SendLatencies ELSE {0} :
          /\ Elapse(lat)
          /\ tracker' = Some(r.sent.tracker)
          /\ cli' = r.sent.cli
          /\ lastFwd' = Forwarded(r, lastFwd)
          /\ lastOp' = OpRecord("command", command, workingDir, tracker[1], r, now)
    /\ commandLog' = logCommand(cfg, commandLog, now, command, duration, workingDir)
    /\ UNCHANGED <<cfg, fs, prevTrack, clsIn, hook, upd, clsOut, proc>>

\* Monitor.ProcessCommand: log, skip a command shorter than MinCommandTime,
\* else TrackCommand
ProcessCommand(command, duration, workingDir) ==
    /\ tracker # None
    /\ \/ /\ duration < cfg.MinCommandTime
          /\ lastOp' = OpRecord("command", command, workingDir, tracker[1],
                                Stopped(tracker[1], cli, FALSE), now)
          /\ UNCHANGED <<now, tracker, cli, lastFwd>>
       \/ /\ duration >= cfg.MinCommandTime
          /\ \E language \in ProjectLanguages(fs, command, workingDir) :
             \E c \in {classifyCommand(cfg, fs, tracker[1], now, command, workingDir,
                                       language)} :
             \E r \in {TrackCommand(c, cli, now, net, exit) :
                       net \in NetOutcomes, exit \in ExitCodes} :
             \E lat \in IF r.sent.gate THEN SendLatencies ELSE {0} :
                /\ Elapse(lat)
                /\ tracker' = Some(r.sent.tracker)
                /\ cli' = r.sent.cli
                /\ lastFwd' = Forwarded(r, lastFwd)
                /\ lastOp' = OpRecord("command", command, workingDir, tracker[1], r, now)
    /\ commandLog' = logCommand(cfg, commandLog, now, command, duration, workingDir)
    /\ UNCHANGED <<cfg, fs, prevTrack, clsIn, hook, upd, clsOut, proc>>

\* Monitor.ProcessFileEdit: a relative path is joined to the working directory
ProcessFileEdit(filePath, isWrite) ==
    /\ tracker # None
    /\ \E path \in {IF IsAbs(filePath) THEN filePath ELSE Join(fs.cwd, filePath)} :
       \E activity \in {fileActivity(cfg, fs, now, path, isWrite)} :
       \E r \in {TrackFile(tracker[1], cli, activity, now, net, exit) :
                 net \in NetOutcomes, exit \in ExitCodes} :
       \E lat \in IF r.sent.gate THEN SendLatencies ELSE {0} :
              /\ Elapse(lat)
              /\ tracker' = Some(r.sent.tracker)
              /\ cli' = r.sent.cli
              /\ lastFwd' = Forwarded(r, lastFwd)
              /\ lastOp' = OpRecord("file", "", "", tracker[1], r, now)
    /\ UNCHANGED <<cfg, fs, commandLog, prevTrack, clsIn, hook, upd, clsOut, proc>>

Tick(d) ==
    /\ now + d <= StartTime + MaxClock
    /\ now' = now + d
    /\ UNCHANGED <<cfg, fs, cli, tracker, commandLog, lastOp, lastFwd, prevTrack, clsIn, hook,
                   upd, clsOut, proc>>

Next ==
    \/ NewMonitor
    \/ \E c \in Commands, d \in Durations, w \in WorkDirs : ProcessCommand(c, d, w)
    \/ \E p \in {"main.go"}, w \in BOOLEAN : ProcessFileEdit(p, w)
    \/ \E d \in {60 * Second} : Tick(d)   \* a minute between two handlers

Spec == Init /\ [][Next]_vars

(***************************************************************************)
(* The track subcommand: the shell hooks start one process per command,    *)
(* runTrackCommand builds a new Monitor (and Tracker) in each.             *)
(***************************************************************************)
TrackCommands == {"", "cat file.txt", "vim main.go"}

\* the --duration flag, in seconds
TrackDurations == {0, 1, 3}

\* the --pwd flag: not given, absolute, relative to the directory of the process
TrackDirs == {"", "/tmp/proj", "."}

TrackInit ==
    /\ InitCommon
    /\ hook = NoHook
    /\ upd = NoUpdate
    /\ clsIn = NoInput
    /\ cfg = DefaultConfig
    /\ fs = ProjFS
    /\ cli = [bin |-> "good", lastUpdateCheck |-> StartTime]
    /\ tracker = None

\* what is kept of the track process that ran before
TrackSummary(op) ==
    [command |-> op.command, pwd |-> op.pwd, at |-> op.at, act |-> op.act,
     gate |-> op.gate, invoked |-> op.invoked, err |-> op.err, shown |-> op.shown]

\* runTrackCommand with the three flags given: validate, NewMonitor,
\* ProcessCommand.  The Tracker ends with the process.
runTrackCommand(command, duration, pwd) ==
    /\ \/ /\ command = "" \/ duration <= 0 \/ pwd = ""
          /\ lastOp' = OpRecord("track", command, pwd, NewTracker,
                                Stopped(NewTracker, cli, TRUE), now)
          /\ UNCHANGED <<now, cli, commandLog>>
       \/ /\ command # "" /\ duration > 0 /\ pwd # ""
          /\ duration * Second < cfg.MinCommandTime
          /\ lastOp' = OpRecord("track", command, pwd, NewTracker,
                                Stopped(NewTracker, cli, FALSE), now)
          /\ commandLog' = logCommand(cfg, commandLog, now, command, duration * Second, pwd)
          /\ UNCHANGED <<now, cli>>
       \/ /\ command # "" /\ duration > 0 /\ pwd # ""
          /\ duration * Second >= cfg.MinCommandTime
          /\ \E language \in ProjectLanguages(fs, command, pwd) :
             \E c \in {classifyCommand(cfg, fs, NewTracker, now, command, pwd, language)} :
             \E r \in {TrackCommand(c, cli, now, net, exit) :
                       net \in NetOutcomes, exit \in ExitCodes} :
             \E lat \in IF r.sent.gate THEN SendLatencies ELSE {0} :
                /\ Elapse(lat)
                /\ cli' = r.sent.cli
                /\ lastOp' = OpRecord("track", command, pwd, NewTracker, r, now)
          /\ commandLog' = logCommand(cfg, commandLog, now, command, duration * Second, pwd)
    /\ prevTrack' = IF lastOp.kind = "track" THEN Some(TrackSummary(lastOp)) ELSE None
    /\ UNCHANGED <<cfg, fs, tracker, lastFwd, clsIn, hook, upd, clsOut, proc>>

TrackNext ==
    \/ \E c \in TrackCommands, d \in TrackDurations, w \in TrackDirs : runTrackCommand(c, d, w)
    \/ \E d \in {30 * Second} : Tick(d)   \* between two commands of the shell

TrackSpec == TrackInit /\ [][TrackNext]_vars

(***************************************************************************)
(* The classifier alone: parseCommandToSingleActivity applied once to a    *)
(* command line, in a working directory, on a file system.                 *)
(***************************************************************************)
\* the most arguments a generated command line has
MaxArgs == 2

ClsPrograms == {"vim", "/usr/local/bin/code", "git", "npm", "/usr/bin/npm", "make", "mysql",
                "psql", "redis-cli", "ssh", "cd", "ls"}

ClsArgs == {"-h", "db.company.com", "user@server.com", "main.go", "go.mod", "new.go", "test"}

RECURSIVE ArgLists(_)
\* the argument lists of at most n arguments
ArgLists(n) ==
    IF n = 0 THEN {<<>>}
    ELSE LET shorter == ArgLists(n - 1)
         IN  shorter \cup {Append(l, a) : l \in shorter, a \in ClsArgs}

RECURSIVE CommandLine(_, _)
\* the program and its arguments, a space between them
CommandLine(prog, args) ==
    IF args = <<>> THEN prog
    ELSE CommandLine(prog \o " " \o Head(args), Tail(args))

ClsCommands ==
    \* command lines with no token, and with white space around the tokens
    {"", " ", "\t \r\n", "  ls   -la\t", "ls -la", "cat file.txt"}
    \cup {CommandLine(p, l) : p \in ClsPrograms, l \in ArgLists(MaxArgs)}

ClassifyInit ==
    /\ InitCommon
    /\ hook = NoHook
    /\ upd = NoUpdate
    /\ clsIn \in [command : ClsCommands, workingDir : WorkDirs]
    /\ cfg = DefaultConfig
    /\ fs \in {ProjFS, BareFS}
    /\ cli = [bin |-> "good", lastUpdateCheck |-> StartTime]
    /\ tracker = Some(NewTracker)

\* one call of parseCommandToSingleActivity on the command under test
Classify ==
    /\ clsOut = <<>>
    /\ \E language \in ProjectLanguages(fs, clsIn.command, clsIn.workingDir) :
       \E c \in {classifyCommand(cfg, fs, tracker[1], now, clsIn.command, clsIn.workingDir,
                                 language)} :
          /\ clsOut' = <<c.act>>
          /\ tracker' = Some(c.tracker)
          /\ lastOp' = [NoOp EXCEPT !.kind = "classify", !.command = clsIn.command,
                                    !.pwd = clsIn.workingDir, !.act = c.act,
                                    !.shown = c.shown, !.at = now]
    /\ UNCHANGED <<now, cfg, fs, cli, commandLog, lastFwd, prevTrack, clsIn, hook, upd, proc>>

ClassifyNext == Classify

ClassifySpec == ClassifyInit /\ [][ClassifyNext]_vars

(***************************************************************************)
(* One track process followed call by call: main, runTrackCommand,         *)
(* ProcessCommand, TrackCommand, sendActivity, and inside it the calls     *)
(* that wait for something outside the process:                            *)
(*   "lookup"    getLatestRelease inside checkForUpdates                   *)
(*   "download"  install (getLatestRelease, downloadAndExtract)            *)
(*   "tool"      cmd.Run() inside SendHeartbeat                            *)
(* proc.at is where the process is ("idle" before it starts, "done" when   *)
(* main returned, "hung" when it waits for a tool that never exits);       *)
(* proc.net collects what the network did so far, proc.cli0 is the install *)
(* the process found, proc.stderr what main printed.                       *)
(***************************************************************************)
SendCommands ==
    {"", "ls -la", "vim main.go", "git", "git status", "git commit -m secret",
     "git commit -m hunter2", "git push origin main", "npm test", "ssh user@server.com"}

\* with and without --verbose, with and without a project override; the tool
\* not installed, installed and checked today, installed with the check due
SendInit ==
    /\ InitCommon
    /\ hook = NoHook
    /\ upd = NoUpdate
    /\ clsIn = NoInput
    /\ cfg \in {[DefaultConfig EXCEPT !.Debug = d, !.Project = p] :
                 d \in BOOLEAN, p \in {"", "override"}}
    /\ fs \in {ProjFS, BareFS}
    /\ cli \in {[bin |-> "absent", lastUpdateCheck |-> ZeroTime],
                [bin |-> "good", lastUpdateCheck |-> StartTime],
                [bin |-> "good", lastUpdateCheck |-> ZeroTime]}
    /\ tracker = None

\* main after execute returned: the error, if any, goes to stderr
trackEnd(p, r, msg) ==
    /\ proc' = [p EXCEPT !.at = "done",
                         !.stderr = IF r.sent.err THEN <<"Error: " \o msg>> ELSE <<>>]
    /\ lastOp' = OpRecord("track", p.command, p.pwd, NewTracker, r, now)

\* the process starts and runs up to the first call it has to wait in
trackBegin(command, duration, pwd) ==
    /\ proc.at = "idle"
    /\ \/ /\ command = "" \/ duration <= 0 \/ pwd = ""
          /\ trackEnd([proc EXCEPT !.command = command, !.pwd = pwd, !.cli0 = cli],
                      Stopped(NewTracker, cli, TRUE),
                      IF command = "" THEN "command is required (use --command flag)"
                      ELSE IF duration <= 0
                      THEN "duration must be greater than 0 (use --duration flag)"
                      ELSE "working directory is required (use --pwd flag)")
          /\ UNCHANGED commandLog
       \/ /\ command # "" /\ duration > 0 /\ pwd # ""
          /\ duration * Second < cfg.MinCommandTime
          /\ trackEnd([proc EXCEPT !.command = command, !.pwd = pwd, !.cli0 = cli],
                      Stopped(NewTracker, cli, FALSE), "")
          /\ commandLog' = logCommand(cfg, commandLog, now, command, duration * Second, pwd)
       \/ /\ command # "" /\ duration > 0 /\ pwd # ""
          /\ duration * Second >= cfg.MinCommandTime
          /\ \E language \in ProjectLanguages(fs, command, pwd) :
             \E c \in {classifyCommand(cfg, fs, NewTracker, now, command, pwd, language)} :
             \E p \in {[proc EXCEPT !.command = command, !.pwd = pwd, !.cli0 = cli,
                                    !.c = c]} :
                IF c.act = None \/ ~shouldSendHeartbeat(c.tracker, c.act[1], now)
                THEN trackEnd(p, TrackCommand(c, cli, now, p.net, 0), "")
                ELSE /\ proc' = [p EXCEPT !.at =
                                  IF ~IsInstalled(cli) THEN "download"
                                  ELSE IF now - cli.lastUpdateCheck < CheckUpdateInterval
                                  THEN "tool"
                                  ELSE "lookup"]
                     /\ UNCHANGED lastOp
          /\ commandLog' = logCommand(cfg, commandLog, now, command, duration * Second, pwd)
    /\ UNCHANGED <<now, cfg, fs, cli, tracker, lastFwd, prevTrack, clsIn, hook, upd, clsOut>>

\* getLatestRelease returned inside checkForUpdates
lookupDone(l) ==
    /\ proc.at = "lookup"
    /\ \E net \in {[proc.net EXCEPT !.lookup = l]} :
          /\ proc' = [proc EXCEPT !.net = net,
                                  !.at = IF l = "newer" THEN "download" ELSE "tool"]
          /\ cli' = IF l = "newer" THEN cli ELSE checkForUpdates(proc.cli0, now, net).cli
    /\ UNCHANGED <<now, cfg, fs, tracker, commandLog, lastOp, lastFwd, prevTrack, clsIn, hook,
                   upd, clsOut>>

\* install returned: EnsureInstalled returns, with an error or to SendHeartbeat
downloadDone(i) ==
    /\ proc.at = "download"
    /\ \E net \in {[proc.net EXCEPT !.install = i]} :
       \E e \in {EnsureInstalled(proc.cli0, now, net)} :
          /\ cli' = e.cli
          /\ IF e.err
             THEN trackEnd([proc EXCEPT !.net = net],
                           TrackCommand(proc.c, proc.cli0, now, net, 0),
                           "failed to ensure wakatime-cli is installed: "
                               \o "failed to download and extract")
             ELSE /\ proc' = [proc EXCEPT !.net = net, !.at = "tool"]
                  /\ UNCHANGED lastOp
    /\ UNCHANGED <<now, cfg, fs, tracker, commandLog, lastFwd, prevTrack, clsIn, hook, upd,
                   clsOut>>

\* cmd.Run() returned: sendActivity, and with it the process, returns
toolDone(exit) ==
    /\ proc.at = "tool"
    /\ \E r \in {TrackCommand(proc.c, proc.cli0, now, proc.net, exit)} :
          /\ cli' = r.sent.cli
          /\ trackEnd(proc, r, IF cli.bin # "good" THEN "exec format error"
                                ELSE "exit status " \o FormatInt(exit))
    /\ UNCHANGED <<now, cfg, fs, tracker, commandLog, lastFwd, prevTrack, clsIn, hook, upd,
                   clsOut>>

\* the tool never exits: cmd.Run() has no deadline, the process waits for ever
toolHangs ==
    /\ proc.at = "tool"
    /\ cli.bin = "good"
    /\ proc' = [proc EXCEPT !.at = "hung"]
    /\ UNCHANGED <<now, cfg, fs, cli, tracker, commandLog, lastOp, lastFwd, prevTrack, clsIn,
                   hook, upd, clsOut>>

SendNext ==
    \/ \E c \in SendCommands, d \in TrackDurations, w \in TrackDirs : trackBegin(c, d, w)
    \/ \E l \in {"fail", "same", "newer"} : lookupDone(l)
    \/ \E i \in {"ok", "fail", "partial"} : downloadDone(i)
    \/ \E exit \in ExitCodes : toolDone(exit)
    \/ toolHangs

SendSpec == SendInit /\ [][SendNext]_vars

\* every call that can return does return
FairSendSpec ==
    /\ SendSpec
    /\ WF_vars(\E l \in {"fail", "same", "newer"} : lookupDone(l))
    /\ WF_vars(\E i \in {"ok", "fail", "partial"} : downloadDone(i))
    /\ WF_vars(\E exit \in ExitCodes : toolDone(exit))

(***************************************************************************)
(* The hooks of `init`: generateBashHooks, generateZshHooks and            *)
(* generateFishHooks, run by interactive shells.  hook.stack is the chain  *)
(* of shells, the last one in the foreground: a shell is at "startup"      *)
(* (reading its rc file, which installs the hooks), at "prompt" or         *)
(* "running" a command; env is None when __TERMINAL_WAKATIME_COMMAND,      *)
(* _START_TIME and _PWD are unset, else Some of their values (n tells      *)
(* which executed command set them; it is no shell variable).  hook.tracks *)
(* lists the track processes started, hook.executed counts the command     *)
(* lines executed.  bash and zsh `export` the three variables, so a shell  *)
(* started by a command finds them in its environment; fish sets globals   *)
(* (`set -g`), which a child does not see.                                 *)
(***************************************************************************)
\* the deepest chain of shells
MaxShells == 2

\* the most command lines executed
MaxCommands == 3

\* the last second of the shells' clock, after StartTime
MaxSeconds == 3

\* a shell of bash (with bash-preexec or without it), zsh or fish at its prompt
HookInit ==
    /\ InitCommon
    /\ clsIn = NoInput
    /\ cfg = DefaultConfig
    /\ fs = ProjFS
    /\ cli = [bin |-> "good", lastUpdateCheck |-> StartTime]
    /\ tracker = None
    /\ upd = NoUpdate
    /\ hook \in {[NoHook EXCEPT !.shell = sb[1], !.bp = sb[2],
                                !.stack = <<[at |-> "prompt", env |-> None]>>] :
                  sb \in {<<"bash", TRUE>>, <<"bash", FALSE>>, <<"zsh", FALSE>>,
                          <<"fish", FALSE>>}}

\* a command line is read at the prompt: __terminal_wakatime_preexec "$1",
\* then the command starts.  bash calls the function only through
\* bash-preexec (the PS4 fallback runs it in a command substitution, which
\* cannot set variables of the shell).  A command that is the shell itself
\* starts a shell in the foreground.
hookPreexec(cmdline) ==
    /\ hook.stack # <<>>
    /\ hook.executed < MaxCommands
    /\ hook.shell = "fish" => cmdline # ""
    /\ LET top == hook.stack[Len(hook.stack)]
           recorded == Some([command |-> cmdline, start |-> now, pwd |-> fs.cwd,
                             n |-> hook.executed + 1])
           env == IF hook.shell = "bash" /\ ~hook.bp THEN top.env
                  ELSE IF hook.shell = "fish" \/ cmdline # "" THEN recorded
                       ELSE top.env
           child == [at |-> "startup", env |-> IF hook.shell = "fish" THEN None ELSE env]
       IN  /\ top.at = "prompt"
           /\ hook' = [hook EXCEPT
                          !.executed = @ + 1,
                          !.stack = SubSeq(@, 1, Len(@) - 1)
                                    \o <<[at |-> "running", env |-> env]>>
                                    \o (IF cmdline = hook.shell /\ Len(@) < MaxShells
                                        THEN <<child>> ELSE <<>>)]
    /\ UNCHANGED <<now, cfg, fs, cli, tracker, commandLog, lastOp, lastFwd, prevTrack, clsIn,
                   clsOut, proc, upd>>

\* the shell in the foreground is about to print its prompt:
\* __terminal_wakatime_postexec (PROMPT_COMMAND of bash), __terminal_wakatime_precmd
\* (zsh), both also before the first prompt and after an empty line; fish
\* emits fish_postexec after a command only.
hookPostexec ==
    /\ hook.stack # <<>>
    /\ LET top == hook.stack[Len(hook.stack)]
           duration == now - top.env[1].start
       IN  /\ top.at = "running" \/ hook.shell # "fish"
           /\ hook' = [hook EXCEPT
                          !.tracks = IF top.env # None /\ duration >= 2
                                     THEN Append(@, [n |-> top.env[1].n,
                                                     command |-> top.env[1].command,
                                                     duration |-> duration,
                                                     pwd |-> top.env[1].pwd])
                                     ELSE @,
                          !.stack[Len(hook.stack)] = [at |-> "prompt", env |-> None]]
    /\ UNCHANGED <<now, cfg, fs, cli, tracker, commandLog, lastOp, lastFwd, prevTrack, clsIn,
                   clsOut, proc, upd>>

\* the shell in the foreground exits at its prompt; the command of its parent ends
exitShell ==
    /\ Len(hook.stack) > 1
    /\ hook.stack[Len(hook.stack)].at = "prompt"
    /\ hook' = [hook EXCEPT !.stack = SubSeq(@, 1, Len(@) - 1)]
    /\ UNCHANGED <<now, cfg, fs, cli, tracker, commandLog, lastOp, lastFwd, prevTrack, clsIn,
                   clsOut, proc, upd>>

\* a second goes by while a command runs or a shell starts
hookWait ==
    /\ hook.stack # <<>>
    /\ hook.stack[Len(hook.stack)].at \in {"running", "startup"}
    /\ now + Second <= StartTime + MaxSeconds * Second
    /\ Tick(Second)

HookNext ==
    \/ \E cmdline \in {"", "make", hook.shell} : hookPreexec(cmdline)
    \/ hookPostexec
    \/ exitShell
    \/ hookWait

HookSpec == HookInit /\ [][HookNext]_vars

(***************************************************************************)
(* The self-update of terminal-wakatime (package updater): MaxProcs        *)
(* processes run CheckAndUpdate on the same wakatime directory and the     *)
(* same binary path, each followed call by call.                           *)
(*   upd.lastCheck  the file last_update_check: None, or Some(its time)    *)
(*   upd.temp       the path terminal-wakatime.new: None, or Some(inode)   *)
(*   upd.bin        the binary path: None for the binary that was there,   *)
(*                  else Some(inode) of the file renamed to it             *)
(*   upd.inode[i]   the chunks of the release asset that file i holds      *)
(*   upd.writable   can a file be renamed to the binary path               *)
(*   upd.info       update_info: None, or Some(the version installed)      *)
(*   upd.p[k]       process k: pc where it is, fd the file it writes,      *)
(*                  wrote the chunks it wrote, result how it ended         *)
(* upd.lastCheck0 (last_update_check when the model starts) and upd.moved  *)
(* (what each rename moved: the chunks the file held at that moment) are   *)
(* kept for the properties only.                                           *)
(***************************************************************************)
\* the processes that check at the same time
MaxProcs == 2

\* the chunks io.Copy writes a release asset in
AssetChunks == 2

\* ShouldCheckForUpdate: no file, or a time of UpdateCheckInterval (24 hours)
\* ago or more
ShouldCheckForUpdate(u, clock) ==
    u.lastCheck = None \/ clock - u.lastCheck[1] >= 24 * Hour

\* never checked, or checked long ago; the binary path can be replaced or not
UpdateInit ==
    /\ InitCommon
    /\ hook = NoHook
    /\ clsIn = NoInput
    /\ cfg = DefaultConfig
    /\ fs = ProjFS
    /\ cli = [bin |-> "good", lastUpdateCheck |-> StartTime]
    /\ tracker = None
    /\ upd \in {[NoUpdate EXCEPT
                    !.lastCheck = l, !.lastCheck0 = l, !.writable = w,
                    !.inode = [i \in 1..MaxProcs |-> {}],
                    !.p = [k \in 1..MaxProcs |->
                            [pc |-> "start", fd |-> 0, wrote |-> 0, result |-> ""]]] :
                 l \in {None, Some(ZeroTime)}, w \in BOOLEAN}

\* CheckAndUpdate: nothing to do, or PerformUpdateCheck starts in a goroutine
CheckAndUpdate(k) ==
    /\ upd.p[k].pc = "start"
    /\ upd' = IF ShouldCheckForUpdate(upd, now)
              THEN [upd EXCEPT !.p[k].pc = "stamp"]
              ELSE [upd EXCEPT !.p[k].pc = "done", !.p[k].result = "skipped"]
    /\ UNCHANGED <<now, cfg, fs, cli, tracker, commandLog, lastOp, lastFwd, prevTrack, clsIn,
                   clsOut, proc, hook>>

\* PerformUpdateCheck begins: UpdateLastCheckTime
UpdateLastCheckTime(k) ==
    /\ upd.p[k].pc = "stamp"
    /\ upd' = [upd EXCEPT !.lastCheck = Some(now), !.p[k].pc = "lookup"]
    /\ UNCHANGED <<now, cfg, fs, cli, tracker, commandLog, lastOp, lastFwd, prevTrack, clsIn,
                   clsOut, proc, hook>>

\* CheckForUpdate and GetAssetURL: the request fails, the release is not
\* newer (or a pre-release), it has no asset for the platform, or it is newer
CheckForUpdate(k, release) ==
    /\ upd.p[k].pc = "lookup"
    /\ upd' = IF release = "newer"
              THEN [upd EXCEPT !.p[k].pc = "get"]
              ELSE [upd EXCEPT !.p[k].pc = "done",
                               !.p[k].result = IF release = "same" THEN "current"
                                               ELSE "failed"]
    /\ UNCHANGED <<now, cfg, fs, cli, tracker, commandLog, lastOp, lastFwd, prevTrack, clsIn,
                   clsOut, proc, hook>>

\* DownloadUpdate up to os.Create: the request fails, or the temp file is
\* created, which empties the file that is at the path already
DownloadUpdate(k, status) ==
    /\ upd.p[k].pc = "get"
    /\ upd' = IF status # 200
              THEN [upd EXCEPT !.p[k].pc = "done", !.p[k].result = "failed"]
              ELSE LET i == IF upd.temp = None THEN k ELSE upd.temp[1]
                   IN  [upd EXCEPT !.temp = Some(i), !.inode[i] = {},
                                   !.p[k].pc = "copy", !.p[k].fd = i]
    /\ UNCHANGED <<now, cfg, fs, cli, tracker, commandLog, lastOp, lastFwd, prevTrack, clsIn,
                   clsOut, proc, hook>>

\* io.Copy: the next chunk goes to the open file at the offset of this
\* process, or the body breaks off; after the last chunk os.Chmod of the
\* path, which fails when no file is at the path any more
Copy(k, broken) ==
    /\ upd.p[k].pc = "copy"
    /\ upd' = IF upd.p[k].wrote < AssetChunks
              THEN IF broken
                   THEN [upd EXCEPT !.p[k].pc = "done", !.p[k].result = "failed"]
                   ELSE [upd EXCEPT !.inode[upd.p[k].fd] = @ \cup {upd.p[k].wrote + 1},
                                    !.p[k].wrote = @ + 1]
              ELSE IF upd.temp = None
                   THEN [upd EXCEPT !.p[k].pc = "done", !.p[k].result = "failed"]
                   ELSE [upd EXCEPT !.p[k].pc = "install"]
    /\ UNCHANGED <<now, cfg, fs, cli, tracker, commandLog, lastOp, lastFwd, prevTrack, clsIn,
                   clsOut, proc, hook>>

\* InstallUpdate: os.Stat of the temp file, os.Rename to the binary path,
\* SaveUpdateInfo
InstallUpdate(k) ==
    /\ upd.p[k].pc = "install"
    /\ upd' = IF upd.temp = None \/ ~upd.writable
              THEN [upd EXCEPT !.p[k].pc = "done", !.p[k].result = "failed"]
              ELSE [upd EXCEPT !.bin = upd.temp, !.temp = None,
                               !.moved = Append(@, upd.inode[upd.temp[1]]),
                               !.info = Some("newer"),
                               !.p[k].pc = "done", !.p[k].result = "installed"]
    /\ UNCHANGED <<now, cfg, fs, cli, tracker, commandLog, lastOp, lastFwd, prevTrack, clsIn,
                   clsOut, proc, hook>>

UpdateNext ==
    \/ \E k \in 1..MaxProcs : CheckAndUpdate(k)
    \/ \E k \in 1..MaxProcs : UpdateLastCheckTime(k)
    \/ \E k \in 1..MaxProcs, release \in {"error", "same", "no asset", "newer"} :
          CheckForUpdate(k, release)
    \/ \E k \in 1..MaxProcs, status \in {200, 404} : DownloadUpdate(k, status)
    \/ \E k \in 1..MaxProcs, broken \in BOOLEAN : Copy(k, broken)
    \/ \E k \in 1..MaxProcs : InstallUpdate(k)

UpdateSpec == UpdateInit /\ [][UpdateNext]_vars

(***************************************************************************)
(* The heartbeat gate (Spec)                                               *)
(***************************************************************************)
\* the last handler reached the gate: lastOp.act is the activity it asked about,
\* lastOp.pre the gate state it read, lastOp.at the clock at that moment
GateAsked == lastOp.kind \in {"command", "file"} /\ lastOp.act # None

\* C1: the gate lets every activity with IsWrite set through, whatever the last
\* sent entity and the last sent time are.
C1_WriteAlwaysSent ==
    (GateAsked /\ lastOp.act[1].IsWrite) => lastOp.gate

\* a write for the entity that was sent at this very instant
C1_Witness ==
    /\ GateAsked
    /\ lastOp.act[1].IsWrite
    /\ lastOp.act[1].Entity = lastOp.pre.lastSentFile
    /\ lastOp.at = lastOp.pre.lastSentTime

\* C2: once an activity has been sent, an activity with another entity passes
\* the gate however little time has gone by.
C2_EntityChangeSent ==
    (/\ GateAsked
     /\ lastOp.pre.lastSentTime # ZeroTime
     /\ lastOp.act[1].Entity # lastOp.pre.lastSentFile) => lastOp.gate

\* a non-write for another entity at the instant of the last send
C2_Witness ==
    /\ GateAsked
    /\ ~lastOp.act[1].IsWrite
    /\ lastOp.pre.lastSentFile # ""
    /\ lastOp.act[1].Entity # lastOp.pre.lastSentFile
    /\ lastOp.at = lastOp.pre.lastSentTime

\* C3: a non-write activity for the entity sent last passes the gate exactly
\* when 2 minutes or more have gone by since the recorded last sent time.
C3_SameEntityAfterTwoMinutes ==
    (/\ GateAsked
     /\ ~lastOp.act[1].IsWrite
     /\ lastOp.act[1].Entity = lastOp.pre.lastSentFile)
    => (lastOp.gate <=> lastOp.at - lastOp.pre.lastSentTime >= 2 * 60 * Second)

\* a repeat that comes exactly 2 minutes after the send, and passes
C3_Witness ==
    /\ GateAsked
    /\ ~lastOp.act[1].IsWrite
    /\ lastOp.act[1].Entity = lastOp.pre.lastSentFile
    /\ lastOp.at - lastOp.pre.lastSentTime = 2 * 60 * Second
    /\ lastOp.invoked

\* C4: a handler leaves the gate state as it was unless it invoked the tool and
\* the tool succeeded: on a skip, on a failed EnsureInstalled and on a failed
\* invocation the Tracker keeps lastSentFile and lastSentTime.
C4_GateStateOnlyOnSuccess ==
    lastOp.kind \in {"command", "file"} =>
        /\ tracker # None
        /\ GateState(tracker[1]) = lastOp.post
        /\ (~lastOp.gate => lastOp.post = lastOp.pre)
        /\ (lastOp.ensured = "fail" => lastOp.post = lastOp.pre)
        /\ ((lastOp.invoked /\ lastOp.err) => lastOp.post = lastOp.pre)
        /\ (lastOp.post # lastOp.pre => (lastOp.invoked /\ ~lastOp.err))

\* the tool was invoked for an entity other than the last sent one, and failed
C4_Witness ==
    /\ GateAsked
    /\ lastOp.invoked
    /\ lastOp.err
    /\ lastOp.pre.lastSentFile # ""
    /\ lastOp.act[1].Entity # lastOp.pre.lastSentFile

\* C5: the gate state of a Tracker is the initial one as long as nothing was
\* forwarded with success, and afterwards the entity and the timestamp of the
\* last activity that was.
C5_GateStateIsLastForward ==
    tracker # None =>
        GateState(tracker[1]) =
            IF lastFwd = None THEN GateState(NewTracker)
            ELSE [lastSentFile |-> lastFwd[1].Entity, lastSentTime |-> lastFwd[1].Timestamp]

\* a forward that replaced the entity and the time of an earlier one, and took
\* a while
C5_Witness ==
    /\ GateAsked
    /\ lastOp.invoked
    /\ ~lastOp.err
    /\ lastOp.pre.lastSentFile \notin {"", lastOp.act[1].Entity}
    /\ lastOp.pre.lastSentTime < lastOp.at
    /\ lastOp.at < now

(***************************************************************************)
(* One track process per command (TrackSpec)                               *)
(***************************************************************************)
\* C6: when the same non-write command is tracked twice in the same working
\* directory, 30 seconds apart, by two track processes, and the first was
\* forwarded, the gate skips the second and the tool is not invoked for it.
C6_SecondTrackSkipped ==
    (/\ lastOp.kind = "track"
     /\ lastOp.act # None
     /\ prevTrack # None
     /\ prevTrack[1].act # None
     /\ prevTrack[1].invoked
     /\ ~prevTrack[1].err
     /\ prevTrack[1].command = lastOp.command
     /\ prevTrack[1].pwd = lastOp.pwd
     /\ prevTrack[1].act[1].Entity = lastOp.act[1].Entity
     /\ ~lastOp.act[1].IsWrite
     /\ lastOp.at - prevTrack[1].at = 30 * Second)
    => (~lastOp.gate /\ ~lastOp.invoked)

(***************************************************************************)
(* The classifier (ClassifySpec)                                           *)
(***************************************************************************)
\* the classifier has run on clsIn
Classified == clsOut # <<>>

\* C7: the classifier returns nil exactly for the commands that hold nothing
\* but white space; any other command gives one activity, and "ls -la" gives
\* the App activity "ls" of category "coding".
C7_NilIffNoToken ==
    Classified =>
        /\ (clsOut[1] = None) <=>
               (\A i \in 1..Len(clsIn.command) :
                    Ch(clsIn.command, i) \in {" ", "\t", "\n", "\r", "\f"})
        /\ Len(clsOut[1]) <= 1
        /\ clsIn.command = "ls -la" =>
               /\ clsOut[1] # None
               /\ clsOut[1][1].Entity = "ls"
               /\ clsOut[1][1].EntityType = ActivityApp
               /\ clsOut[1][1].Category = "coding"

\* "ls -la" has been classified
C7_Witness ==
    /\ Classified
    /\ clsIn.command = "ls -la"
    /\ clsOut[1] # None
    /\ clsOut[1][1].Entity = "ls"

C9_MissingFileStillFile ==
    (/\ Classified
     /\ Len(Fields(clsIn.command)) > 1
     /\ isEditor(Base(Fields(clsIn.command)[1]))
     /\ EditorArgs(Fields(clsIn.command)) # <<>>
     /\ Stat(fs, EditorPath(EditorArgs(Fields(clsIn.command))[1], clsIn.workingDir)) = "noent")
    => /\ clsOut[1] # None
       /\ clsOut[1][1].EntityType = ActivityFile
       /\ clsOut[1][1].Entity =
              EditorPath(EditorArgs(Fields(clsIn.command))[1], clsIn.workingDir)
       /\ clsOut[1][1].IsWrite

\* C10: ssh to a host, and mysql, psql or redis-cli with -h and a host, give the
\* Domain activity of category "coding" whose entity is the host.
C10_RemoteIsDomain ==
    Classified =>
        LET fields == Fields(clsIn.command)
            ats == IF Len(fields) = 2
                   THEN {i \in 1..Len(fields[2]) : Ch(fields[2], i) = "@"} ELSE {}
            host == IF Len(fields) = 2
                    THEN (IF ats = {} THEN fields[2] ELSE From(fields[2], Max(ats) + 1))
                    ELSE IF Len(fields) = 3 THEN fields[3] ELSE ""
            remote == \/ /\ Len(fields) = 2
                         /\ fields[1] = "ssh"
                      \/ /\ Len(fields) = 3
                         /\ fields[1] \in {"mysql", "psql", "redis-cli"}
                         /\ fields[2] = "-h"
        IN  (remote /\ host # "" /\ ~HasPrefix(host, "-")) =>
                /\ clsOut[1] # None
                /\ clsOut[1][1].EntityType = ActivityDomain
                /\ clsOut[1][1].Category = "coding"
                /\ clsOut[1][1].Entity = host

C12_GitWriteTotals ==
    (/\ proc.at = "done"
     /\ lastOp.act # None
     /\ Base(Fields(lastOp.command)[1]) = "git"
     /\ Len(Fields(lastOp.command)) >= 2) =>
        LET a == lastOp.act[1]
        IN  /\ a.EntityType = ActivityApp
            /\ IF Fields(lastOp.command)[2] \in {"commit", "push", "merge", "rebase"}
               THEN /\ a.IsWrite
                    /\ a.LineAdditions = Some(SumOf(fs.commit, "added"))
                    /\ a.LineDeletions = Some(SumOf(fs.commit, "deleted"))
               ELSE ~a.IsWrite

\* C13: for a command whose program name (the base name of its first token)
\* is a build or test tool, the activity is an App whose entity is the
\* program name and the second token (the program name alone when there is
\* none), with category "debugging" for a test keyword, "building" for a
\* build keyword and "coding" otherwise.
C13_BuildToolEntity ==
    (/\ Classified
     /\ clsOut[1] # None
     /\ isBuildTestCommand(Base(Fields(clsIn.command)[1]))) =>
        LET fields == Fields(clsIn.command)
            program == Base(fields[1])
            a == clsOut[1][1]
        IN  /\ a.EntityType = ActivityApp
            /\ a.Entity = IF Len(fields) > 1 THEN program \o " " \o fields[2] ELSE program
            /\ a.Category = IF Len(fields) > 1 /\ isTestCommand(fields[2]) THEN "debugging"
                            ELSE IF Len(fields) > 1 /\ isBuildCommand(fields[2])
                            THEN "building" ELSE "coding"

\* C14: every activity has a project that is not empty, and detectProject
\* returns a name that is not empty for every path, for a directory and for a
\* file, existing or not, absolute or relative, with a project marker on the
\* way up or without one, with a project override or without one; so does
\* the activity TrackFile builds for the path.
C14_ProjectNeverEmpty ==
    /\ lastOp.act # None => lastOp.act[1].Project # ""
    /\ proc.at = "idle" =>
          \A path \in {"/", "/tmp", "/tmp/proj", "/tmp/proj/main.go", "/tmp/proj/sub/new.go",
                       "/home/u", "/home/u/notes.txt", "main.go", "sub/"} :
             /\ detectProject(cfg, fs, path) # ""
             /\ fileActivity(cfg, fs, now, path, FALSE).Project # ""

\* without an override and without a marker the project is the name of the
\* working directory
C14_Witness ==
    /\ proc.at = "done"
    /\ cfg.Project = ""
    /\ fs = BareFS
    /\ lastOp.act # None
    /\ lastOp.act[1].Project = "proj"

\* C15: when the working directory is absolute, an activity of kind File (a
\* file argument of an editor, the target of cd) has an absolute path as its
\* entity.
C15_FileEntityAbsolute ==
    (/\ Classified
     /\ clsOut[1] # None
     /\ IsAbs(clsIn.workingDir)
     /\ clsOut[1][1].EntityType = ActivityFile) =>
        IsAbs(clsOut[1][1].Entity)

\* an editor opened a file named relative to the working directory
C15_Witness ==
    /\ Classified
    /\ clsIn = [command |-> "vim main.go", workingDir |-> "/tmp/proj"]
    /\ clsOut[1] # None
    /\ clsOut[1][1].EntityType = ActivityFile
    /\ clsOut[1][1].Entity = "/tmp/proj/main.go"

\* C16: whenever wakatime-cli is run, its arguments carry --entity with the
\* entity and --plugin with "<shell>/<shell version> <plugin>/<plugin
\* version>"; each of --entity-type, --category, --language, --project,
\* --alternate-project (the branch), --lines-in-file, --lineno, --cursorpos,
\* --line-additions and --line-deletions is there, with the value of its
\* field, if and only if the field is set; --write is there if and only if
\* IsWrite.
C16_FlagsFollowFields ==
    (lastOp.invoked /\ lastOp.act # None) =>
        LET args == lastOp.args
            a == lastOp.act[1]
            Pos(flag) == {k \in 1..Len(args) : args[k] = flag}
            Has(flag) == Pos(flag) # {}
            Val(flag) == args[Min(Pos(flag)) + 1]
            StrFlag(flag, value) ==
                /\ Has(flag) <=> value # ""
                /\ Has(flag) => (Cardinality(Pos(flag)) = 1 /\ Val(flag) = value)
            IntFlag(flag, ptr) ==
                /\ Has(flag) <=> ptr # None
                /\ Has(flag) => /\ Cardinality(Pos(flag)) = 1
                                /\ IsDigits(Val(flag))
                                /\ DigitsValue(Val(flag), 0) = ptr[1]
            plugin == Val("--plugin")
            spaces == {k \in 1..Len(plugin) : Ch(plugin, k) = " "}
            shell == SubSeq(plugin, 1, Min(spaces) - 1)
            slashes == {k \in 1..Len(shell) : Ch(shell, k) = "/"}
        IN  /\ Has("--entity") /\ Val("--entity") = a.Entity
            /\ Has("--plugin")
            /\ Cardinality(spaces) = 1
            /\ From(plugin, Min(spaces) + 1) = PluginName \o "/" \o PluginVersion
            /\ Cardinality(slashes) = 1
            /\ SubSeq(shell, 1, Min(slashes) - 1) \in {"bash", "zsh", "fish"}
            /\ Min(slashes) < Len(shell)
            /\ StrFlag("--entity-type", a.EntityType)
            /\ StrFlag("--category", a.Category)
            /\ StrFlag("--language", a.Language)
            /\ StrFlag("--project", a.Project)
            /\ StrFlag("--alternate-project", a.Branch)
            /\ IntFlag("--lines-in-file", a.Lines)
            /\ IntFlag("--lineno", a.LineNo)
            /\ IntFlag("--cursorpos", a.CursorPos)
            /\ IntFlag("--line-additions", a.LineAdditions)
            /\ IntFlag("--line-deletions", a.LineDeletions)
            /\ Has("--write") <=> a.IsWrite

\* wakatime-cli was run for a file with a language and line numbers that git
\* reported no changes for
C16_Witness ==
    /\ lastOp.invoked
    /\ lastOp.act # None
    /\ lastOp.act[1].Language # ""
    /\ lastOp.act[1].Branch # ""
    /\ lastOp.act[1].LineNo # None
    /\ lastOp.act[1].LineAdditions = None

(***************************************************************************)
(* The track process call by call (SendSpec, FairSendSpec)                 *)
(***************************************************************************)
\* C17: forwarding a heartbeat ends: once SendHeartbeat has started the tool,
\* the process gets to its end, whether the tool exits or not.
C17_ForwardingTerminates == (proc.at = "tool") ~> (proc.at = "done")

\* C18: the update check is detached from the send path: a process that found
\* the tool installed never waits for the release lookup or for the download
\* of a new release before it runs the tool.
C18_UpdateCheckDetached ==
    IsInstalled(proc.cli0) => proc.at \notin {"lookup", "download"}

(***************************************************************************)
(* Errors of the install (Spec)                                            *)
(***************************************************************************)
\* C19: when EnsureInstalled fails, the send is given up: wakatime-cli is not
\* run, the handler returns an error to its caller, and the gate state of
\* the Tracker is what it was before.
C19_InstallFailureAborts ==
    (lastOp.kind \in {"command", "file"} /\ lastOp.ensured = "fail") =>
        /\ ~lastOp.invoked
        /\ lastOp.args = <<>>
        /\ lastOp.err
        /\ lastOp.post = lastOp.pre
        /\ tracker # None
        /\ GateState(tracker[1]) = lastOp.pre
        /\ ~IsInstalled(cli)

\* the gate let an activity through, the tool was not installed and the
\* install failed
C19_Witness ==
    /\ lastOp.kind = "command"
    /\ lastOp.gate
    /\ lastOp.ensured = "fail"
    /\ lastOp.act # None

(***************************************************************************)
(* What the track command prints (SendSpec)                                *)
(***************************************************************************)
\* C20: when wakatime-cli was run and failed, the track command prints the
\* error in debug mode and nothing otherwise.
C20_SilentUnlessDebug ==
    (proc.at = "done" /\ lastOp.invoked /\ lastOp.err) =>
        (proc.stderr # <<>> <=> cfg.Debug)

(***************************************************************************)
(* The editor suggestion across track processes (TrackSpec)                *)
(***************************************************************************)
\* C21: the suggestion for an editor is printed at most once within the
\* suggestion frequency: when a track process printed it, the next track
\* process for the same editor, less than that long after, does not.
C21_SuggestionOncePerWindow ==
    (/\ lastOp.kind = "track"
     /\ prevTrack # None
     /\ prevTrack[1].shown
     /\ Fields(lastOp.command) # <<>>
     /\ Base(Fields(lastOp.command)[1]) = Base(Fields(prevTrack[1].command)[1])
     /\ lastOp.at - prevTrack[1].at < cfg.EditorSuggestionFrequency)
    => ~lastOp.shown

(***************************************************************************)
(* The classifier as a function (ClassifySpec)                             *)
(***************************************************************************)
\* C22: the classifier is a function of the command, the working directory,
\* the configuration and the file system: every other run on the same inputs
\* returns the activity this run returned, with the same language also when
\* the working directory holds the marker files of several languages.
C22_ClassifierIsFunction ==
    Classified =>
        \A language \in ProjectLanguages(fs, clsIn.command, clsIn.workingDir) :
           parseCommandToSingleActivity(cfg, fs, lastOp.at, clsIn.command, clsIn.workingDir,
                                        language) = clsOut[1]

(***************************************************************************)
(* The gate of a new Tracker (Spec)                                        *)
(***************************************************************************)
\* C23: with the gate state of a new Tracker (no entity, the zero time) the
\* gate lets every activity through: the one a handler asked it about, and
\* at any time a write or a non-write of any entity, the empty entity
\* included.
C23_FreshTrackerSends ==
    /\ (GateAsked /\ lastOp.pre = GateState(NewTracker)) => lastOp.gate
    /\ \A entity \in {"", "ls", "/tmp/proj/main.go"}, write \in BOOLEAN :
          shouldSendHeartbeat(NewTracker,
                              [Activity(entity, ActivityApp, "coding", "proj", "", now)
                               EXCEPT !.IsWrite = write],
                              now)

\* a handler asked the gate of a Tracker that had forwarded nothing yet about
\* a non-write
C23_Witness ==
    /\ GateAsked
    /\ lastOp.pre = GateState(NewTracker)
    /\ ~lastOp.act[1].IsWrite
    /\ lastOp.gate

(***************************************************************************)
(* Editor commands with several files (ClassifySpec)                       *)
(***************************************************************************)
\* C24: an editor command that names several accepted files (arguments that
\* are no flags and whose resolved path exists) yields one activity: its
\* entity is the resolved path of the first accepted argument in argument
\* order, and its line count is the sum, over the accepted arguments, of the
\* line counts of their files.
C24_EditorAggregatesLines ==
    LET f == Fields(clsIn.command)
        path(i) == IF IsAbs(f[i]) THEN f[i] ELSE Join(clsIn.workingDir, f[i])
        accepted == {i \in 2..Len(f) : ~HasPrefix(f[i], "-") /\ Stat(fs, path(i)) # "noent"}
        count(i) == IF Stat(fs, path(i)) = "file" THEN fs.files[Resolve(fs, path(i))] ELSE 0
        RECURSIVE total(_)
        total(S) == IF S = {} THEN 0 ELSE count(Max(S)) + total(S \ {Max(S)})
    IN  (/\ Classified
         /\ f # <<>>
         /\ isEditor(Base(f[1]))
         /\ Cardinality(accepted) >= 2) =>
            /\ clsOut[1] # None
            /\ clsOut[1][1].EntityType = ActivityFile
            /\ clsOut[1][1].Entity = path(Min(accepted))
            /\ clsOut[1][1].Lines = Some(total(accepted))

\* vim opened go.mod (3 lines) and main.go (10 lines): one activity for go.mod
\* with 13 lines
C24_Witness ==
    /\ Classified
    /\ clsIn = [command |-> "vim go.mod main.go", workingDir |-> "/tmp/proj"]
    /\ fs = ProjFS
    /\ clsOut[1] # None
    /\ clsOut[1][1].Entity = "/tmp/proj/go.mod"
    /\ clsOut[1][1].Lines = Some(13)

(***************************************************************************)
(* The project of a path (SendSpec)                                        *)
(***************************************************************************)
\* C25: the project of an activity built for the working directory is the
\* project override when one is set; otherwise it is the name of the nearest
\* directory that holds a project marker, from the working directory upward
\* to the root of the file system, and the base name of the working directory
\* when no directory on the way holds one.
C25_NearestMarkedDirectory ==
    LET start == Resolve(fs, lastOp.pwd)
        RECURSIVE nearest(_)
        nearest(dir) == IF HasProjectFile(fs, dir) THEN Base(dir)
                        ELSE IF Dir(dir) = dir THEN Base(lastOp.pwd)
                             ELSE nearest(Dir(dir))
    IN  (/\ proc.at = "done"
         /\ lastOp.act # None
         /\ lastOp.act[1].EntityType = ActivityApp
         /\ isDir(fs, lastOp.pwd)) =>
            lastOp.act[1].Project = IF cfg.Project # "" THEN cfg.Project ELSE nearest(start)

(***************************************************************************)
(* The threshold of ProcessCommand (Spec)                                  *)
(***************************************************************************)
\* C26: a call of ProcessCommand with a duration below MinCommandTime returns
\* no error, builds no activity, shows no suggestion, does not look at or
\* run wakatime-cli and leaves the gate state, the clock and the last
\* forwarded activity as they were; a call with a duration of MinCommandTime
\* or more hands the command to the tracker, which builds an activity for
\* every command that has a token.
C26_ShortCommandSkipped ==
    [][\A command \in Commands, duration \in Durations, workingDir \in WorkDirs :
          (/\ lastOp'.kind = "command"
           /\ lastOp'.command = command
           /\ lastOp'.pwd = workingDir
           /\ ProcessCommand(command, duration, workingDir)) =>
              IF duration < cfg.MinCommandTime
              THEN /\ ~lastOp'.err
                   /\ lastOp'.act = None
                   /\ ~lastOp'.shown
                   /\ lastOp'.ensured = "skipped"
                   /\ ~lastOp'.gate
                   /\ ~lastOp'.invoked
                   /\ UNCHANGED <<tracker, cli, lastFwd, now>>
              ELSE Fields(command) # <<>> =>
                      /\ lastOp'.act # None
                      /\ lastOp'.act[1].Timestamp = now
                      /\ lastOp'.pre = GateState(tracker[1])]_vars

\* a short command came after a heartbeat was sent: no activity, no error,
\* the gate state of the heartbeat is still there
C26_Witness ==
    /\ lastOp.kind = "command"
    /\ Fields(lastOp.command) # <<>>
    /\ lastOp.act = None
    /\ ~lastOp.err
    /\ lastFwd # None
    /\ tracker # None
    /\ tracker[1].lastSentFile # ""
    /\ lastOp.post = GateState(tracker[1])

(***************************************************************************)
(* The shell hooks (HookSpec)                                              *)
(***************************************************************************)
\* C27: an executed command line starts at most one track process, and only
\* with a measured duration of 2 seconds or more; a shell at its prompt has
\* the recorded command, start time and working directory unset, so that a
\* prompt that follows no new command starts no track process.
C27_OneTrackPerCommand ==
    /\ \A i, j \in DOMAIN hook.tracks : hook.tracks[i].n = hook.tracks[j].n => i = j
    /\ \A i \in DOMAIN hook.tracks : hook.tracks[i].duration >= 2
    /\ \A k \in DOMAIN hook.stack : hook.stack[k].at = "prompt" => hook.stack[k].env = None

(***************************************************************************)
(* The self-update (UpdateSpec)                                            *)
(***************************************************************************)
\* C28: when every update check that ran has failed (the lookup, the
\* download or the install did not succeed), last_update_check is as it was
\* before: not created, not advanced.
C28_FailedCheckLeavesNoStamp ==
    (/\ \A k \in DOMAIN upd.p : upd.p[k].pc = "done" /\ upd.p[k].result \in {"failed", "skipped"}
     /\ \E k \in DOMAIN upd.p : upd.p[k].result = "failed") =>
        upd.lastCheck = upd.lastCheck0

\* C30: whatever the interleaving of the processes, every file InstallUpdate
\* renamed to the binary path held the whole release asset at that moment.
C30_InstalledFileComplete ==
    \A m \in DOMAIN upd.moved : upd.moved[m] = 1..AssetChunks

(***************************************************************************)
(* The install after EnsureInstalled (SendSpec)                            *)
(***************************************************************************)
\* C29: whenever EnsureInstalled returned no error, a wakatime-cli that runs
\* is at the install path, whatever the update check and the silent
\* re-install inside it did.
C29_EnsuredMeansInstalled ==
    (proc.at \in {"tool", "hung", "done"} /\ lastOp.kind = "track" /\ lastOp.ensured = "ok") =>
        IsInstalled(cli)

====
